---- MODULE Spec2Model ----
(***************************************************************************)
(* A model of apicrafter's schema-driven core: the request validator       *)
(* (validator.py), the schema loader and its endpoint lookup               *)
(* (schema_loader.py) and the field prompter (field_prompter.py), and of   *)
(* its storage manager (storage.py) and HTTP client (http_client.py).      *)
(*                                                                         *)
(* Python values are tagged records whose tag k is the value's Python type *)
(* name (type(v).__name__); a dict is an insertion-ordered sequence of     *)
(* <<key, value>> pairs with distinct keys.  Strings are TLA+ strings and  *)
(* the string methods the code calls (lower, upper, strip, split,          *)
(* startswith, endswith) are computed character by character.              *)
(***************************************************************************)
EXTENDS Integers, Sequences, FiniteSets, TLC

VARIABLES
    pc,            \* position of the modelled caller
    endpoint,      \* the SchemaEndpoint handed to validate_request
    headers,       \* validate_request argument
    query_params,  \* validate_request argument
    body,          \* validate_request argument
    method,        \* validate_request argument
    path,          \* validate_request argument
    result,        \* the ValidationResult returned (or the exception raised)
    schema_data,   \* the decoded schema document handed to the loader
    api_schema,    \* the APISchema the loader returned (or the exception raised)
    hash_order,    \* which way this process's string hashing orders a set of names
    answers,       \* the questions the prompter asked and what the collector answered
    frames,        \* the prompter's calls in progress, innermost last
    prompted,      \* the body the prompter assembled (or the exception raised)
    files,         \* the files of the configuration directory
    calls          \* the calls made on the storage manager and the client, in order

vars == <<pc, endpoint, headers, query_params, body, method, path, result,
          schema_data, api_schema, hash_order, answers, frames, prompted, files, calls>>

----------------------------------------------------------------------------
(* Python values *)

None == [k |-> "NoneType"]
PyBool(b) == [k |-> "bool", b |-> b]
PyInt(n) == [k |-> "int", n |-> n]
\* a float is kept as twice its value, so that x.5 is representable
PyFloat(twice) == [k |-> "float", twice |-> twice]
PyStr(s) == [k |-> "str", s |-> s]
PyList(items) == [k |-> "list", items |-> items]
PyDict(entries) == [k |-> "dict", entries |-> entries]

\* isinstance(v, int): bool is a subclass of int
IsInt(v) == v.k \in {"int", "bool"}
\* isinstance(v, (int, float))
IsNumber(v) == v.k \in {"int", "bool", "float"}

\* twice the numeric value of an int, bool or float
Twice(v) ==
    CASE v.k = "int" -> 2 * v.n
      [] v.k = "bool" -> IF v.b THEN 2 ELSE 0
      [] v.k = "float" -> v.twice

\* bool(v): Python truthiness
Truthy(v) ==
    CASE v.k = "NoneType" -> FALSE
      [] v.k = "bool" -> v.b
      [] v.k = "int" -> v.n # 0
      [] v.k = "float" -> v.twice # 0
      [] v.k = "str" -> v.s # ""
      [] v.k = "list" -> v.items # <<>>
      [] v.k = "dict" -> v.entries # <<>>

\* a == b on Python values: numbers compare by value across int/bool/float
PyEq(a, b) ==
    IF IsNumber(a) /\ IsNumber(b) THEN Twice(a) = Twice(b) ELSE a = b

\* key in d
Has(d, key) == \E i \in 1..Len(d.entries) : d.entries[i][1] = key

\* d[key]
Item(d, key) ==
    d.entries[CHOOSE i \in 1..Len(d.entries) : d.entries[i][1] = key][2]

\* d.get(key, default)
Get(d, key, default) == IF Has(d, key) THEN Item(d, key) ELSE default

\* d[key] = value: replaces in place, or appends a new key at the end
SetItem(d, key, value) ==
    IF Has(d, key)
    THEN PyDict([i \in 1..Len(d.entries) |->
                 IF d.entries[i][1] = key THEN <<key, value>> ELSE d.entries[i]])
    ELSE PyDict(Append(d.entries, <<key, value>>))

----------------------------------------------------------------------------
(* Python string methods *)

UpperChars == "ABCDEFGHIJKLMNOPQRSTUVWXYZ"
LowerChars == "abcdefghijklmnopqrstuvwxyz"

CharAt(s, i) == SubSeq(s, i, i)

LowerChar(c) ==
    IF \E i \in 1..Len(UpperChars) : CharAt(UpperChars, i) = c
    THEN CharAt(LowerChars, CHOOSE i \in 1..Len(UpperChars) : CharAt(UpperChars, i) = c)
    ELSE c

UpperChar(c) ==
    IF \E i \in 1..Len(LowerChars) : CharAt(LowerChars, i) = c
    THEN CharAt(UpperChars, CHOOSE i \in 1..Len(LowerChars) : CharAt(LowerChars, i) = c)
    ELSE c

RECURSIVE lower(_)
lower(s) ==
    IF s = "" THEN "" ELSE LowerChar(CharAt(s, 1)) \o lower(SubSeq(s, 2, Len(s)))

RECURSIVE upper(_)
upper(s) ==
    IF s = "" THEN "" ELSE UpperChar(CharAt(s, 1)) \o upper(SubSeq(s, 2, Len(s)))

startswith(s, prefix) ==
    Len(prefix) <= Len(s) /\ SubSeq(s, 1, Len(prefix)) = prefix

endswith(s, suffix) ==
    Len(suffix) <= Len(s) /\ SubSeq(s, Len(s) - Len(suffix) + 1, Len(s)) = suffix

RECURSIVE lstrip(_, _)
lstrip(s, c) ==
    IF s # "" /\ CharAt(s, 1) = c THEN lstrip(SubSeq(s, 2, Len(s)), c) ELSE s

RECURSIVE rstrip(_, _)
rstrip(s, c) ==
    IF s # "" /\ CharAt(s, Len(s)) = c THEN rstrip(SubSeq(s, 1, Len(s) - 1), c) ELSE s

\* s.strip(c) for a one-character c
strip(s, c) == rstrip(lstrip(s, c), c)

\* s.split(sep) for a one-character sep: always at least one part
RECURSIVE split(_, _)
split(s, sep) ==
    IF \E i \in 1..Len(s) : CharAt(s, i) = sep
    THEN LET i == CHOOSE j \in 1..Len(s) :
                      /\ CharAt(s, j) = sep
                      /\ \A h \in 1..(j - 1) : CharAt(s, h) # sep
         IN <<SubSeq(s, 1, i - 1)>> \o split(SubSeq(s, i + 1, Len(s)), sep)
    ELSE <<s>>

Digits == "0123456789"

\* str(n) for an integer n
RECURSIVE NatStr(_)
NatStr(n) ==
    IF n < 10 THEN CharAt(Digits, n + 1)
    ELSE NatStr(n \div 10) \o CharAt(Digits, (n % 10) + 1)

IntStr(n) == IF n < 0 THEN "-" \o NatStr(0 - n) ELSE NatStr(n)

----------------------------------------------------------------------------
(* str(), repr() and the json module, on the values the model uses *)

\* ", ".join(parts)
RECURSIVE JoinComma(_)
JoinComma(parts) ==
    IF parts = <<>> THEN ""
    ELSE IF Len(parts) = 1 THEN parts[1]
    ELSE parts[1] \o ", " \o JoinComma(Tail(parts))

FloatStr(twice) ==
    LET mag == IF twice < 0 THEN 0 - twice ELSE twice
    IN (IF twice < 0 THEN "-" ELSE "") \o NatStr(mag \div 2)
           \o (IF mag % 2 = 0 THEN ".0" ELSE ".5")

\* repr(v)
RECURSIVE repr(_)
repr(v) ==
    CASE v.k = "NoneType" -> "None"
      [] v.k = "bool" -> IF v.b THEN "True" ELSE "False"
      [] v.k = "int" -> IntStr(v.n)
      [] v.k = "float" -> FloatStr(v.twice)
      [] v.k = "str" -> "'" \o v.s \o "'"
      [] v.k = "list" ->
            "[" \o JoinComma([i \in 1..Len(v.items) |-> repr(v.items[i])]) \o "]"
      [] v.k = "dict" ->
            "{" \o JoinComma([i \in 1..Len(v.entries) |->
                     "'" \o v.entries[i][1] \o "': " \o repr(v.entries[i][2])]) \o "}"

\* str(v), which is what an f-string's {v} inserts
str(v) == IF v.k = "str" THEN v.s ELSE repr(v)

JSONDecodeError == [ok |-> FALSE, value |-> None]

IsDigits(s) == s # "" /\ \A i \in 1..Len(s) : \E d \in 1..10 : CharAt(Digits, d) = CharAt(s, i)

DigitValue(c) == (CHOOSE d \in 1..10 : CharAt(Digits, d) = c) - 1

RECURSIVE ParseNat(_)
ParseNat(s) ==
    IF s = "" THEN 0
    ELSE 10 * ParseNat(SubSeq(s, 1, Len(s) - 1)) + DigitValue(CharAt(s, Len(s)))

\* json.loads(s) on the documents the model hands it: the literals null, true
\* and false, an unsigned integer, an empty object or array, a quoted string
\* without escapes; any other text the model uses is not JSON at all.
json_loads(s) ==
    CASE s = "null" -> [ok |-> TRUE, value |-> None]
      [] s = "true" -> [ok |-> TRUE, value |-> PyBool(TRUE)]
      [] s = "false" -> [ok |-> TRUE, value |-> PyBool(FALSE)]
      [] s = "{}" -> [ok |-> TRUE, value |-> PyDict(<<>>)]
      [] s = "[]" -> [ok |-> TRUE, value |-> PyList(<<>>)]
      [] IsDigits(s) /\ (Len(s) = 1 \/ CharAt(s, 1) # "0") ->
            [ok |-> TRUE, value |-> PyInt(ParseNat(s))]
      [] /\ Len(s) >= 2 /\ CharAt(s, 1) = "\"" /\ CharAt(s, Len(s)) = "\""
         /\ \A i \in 2..(Len(s) - 1) : CharAt(s, i) \notin {"\"", "\\"} ->
            [ok |-> TRUE, value |-> PyStr(SubSeq(s, 2, Len(s) - 1))]
      [] OTHER -> JSONDecodeError

RECURSIVE Spaces(_)
Spaces(n) == IF n = 0 THEN "" ELSE " " \o Spaces(n - 1)

\* ",\n".join(parts)
RECURSIVE JoinLines(_)
JoinLines(parts) ==
    IF parts = <<>> THEN ""
    ELSE IF Len(parts) = 1 THEN parts[1]
    ELSE parts[1] \o ",\n" \o JoinLines(Tail(parts))

\* json.dumps(v, indent=2), at nesting depth level
RECURSIVE json_dumps(_, _)
json_dumps(v, level) ==
    CASE v.k = "NoneType" -> "null"
      [] v.k = "bool" -> IF v.b THEN "true" ELSE "false"
      [] v.k = "int" -> IntStr(v.n)
      [] v.k = "float" -> FloatStr(v.twice)
      [] v.k = "str" -> "\"" \o v.s \o "\""
      [] v.k = "list" ->
            IF v.items = <<>> THEN "[]"
            ELSE "[\n"
                 \o JoinLines([i \in 1..Len(v.items) |->
                        Spaces(2 * (level + 1)) \o json_dumps(v.items[i], level + 1)])
                 \o "\n" \o Spaces(2 * level) \o "]"
      [] v.k = "dict" ->
            IF v.entries = <<>> THEN "{}"
            ELSE "{\n"
                 \o JoinLines([i \in 1..Len(v.entries) |->
                        Spaces(2 * (level + 1)) \o "\"" \o v.entries[i][1] \o "\": "
                            \o json_dumps(v.entries[i][2], level + 1)])
                 \o "\n" \o Spaces(2 * level) \o "}"

----------------------------------------------------------------------------
(* validator.py: ValidationResult *)

ValidationError(field, message, value) ==
    [field |-> field, message |-> message, value |-> value]

\* ValidationResult(): exc is "" for a result that was returned and names the
\* exception when the call raised instead of returning
ValidationResult ==
    [is_valid |-> TRUE, errors |-> <<>>, warnings |-> <<>>, suggestions |-> <<>>,
     exc |-> ""]

add_error(r, field, message, value) ==
    [r EXCEPT !.is_valid = FALSE,
              !.errors = Append(@, ValidationError(field, message, value))]

add_warning(r, message) == [r EXCEPT !.warnings = Append(@, message)]

add_suggestion(r, message) == [r EXCEPT !.suggestions = Append(@, message)]

\* an exception leaves the function: no report is returned
Raise(e) == [ValidationResult EXCEPT !.exc = e]

\* result.errors.extend(sub.errors); result.warnings.extend(sub.warnings)
\* (is_valid is left as it is); an exception raised by the callee propagates
Extend(r, sub) ==
    IF sub.exc # "" THEN Raise(sub.exc)
    ELSE [r EXCEPT !.errors = @ \o sub.errors, !.warnings = @ \o sub.warnings]

\* result.errors.extend(sub.errors)
ExtendErrors(r, sub) ==
    IF sub.exc # "" THEN Raise(sub.exc)
    ELSE [r EXCEPT !.errors = @ \o sub.errors]

----------------------------------------------------------------------------
(* validator.py: validate_field_value, validate_object, validate_array *)

IsSubstring(t, s) ==
    \E i \in 1..(Len(s) + 1) : i + Len(t) - 1 <= Len(s) /\ SubSeq(s, i, i + Len(t) - 1) = t

\* value in container: "yes", "no", or "TypeError" when Python raises it
Contains(container, value) ==
    CASE container.k = "list" ->
            IF \E i \in 1..Len(container.items) : PyEq(container.items[i], value)
            THEN "yes" ELSE "no"
      [] container.k = "dict" ->
            IF value.k \in {"list", "dict"} THEN "TypeError"
            ELSE IF value.k = "str" /\ Has(container, value.s) THEN "yes" ELSE "no"
      [] container.k = "str" ->
            IF value.k # "str" THEN "TypeError"
            ELSE IF IsSubstring(value.s, container.s) THEN "yes" ELSE "no"
      [] OTHER -> "TypeError"

\* re.match(pattern, value) for the patterns the model uses: literal characters,
\* optionally opened by ^ and closed by $.  re.match anchors the match at the
\* start of the value only; $ is what requires the value to end there.
re_match(pattern, value) ==
    LET p1 == IF startswith(pattern, "^") THEN SubSeq(pattern, 2, Len(pattern)) ELSE pattern
        anchored == endswith(p1, "$")
        literal == IF anchored THEN SubSeq(p1, 1, Len(p1) - 1) ELSE p1
    IN IF anchored THEN value = literal ELSE startswith(value, literal)

\* the if/elif chain of the type validation
TypeMismatch(field_type, value) ==
    \/ field_type = PyStr("string") /\ value.k # "str"
    \/ field_type = PyStr("integer") /\ ~IsInt(value)
    \/ field_type = PyStr("number") /\ ~IsNumber(value)
    \/ field_type = PyStr("boolean") /\ value.k # "bool"
    \/ field_type = PyStr("array") /\ value.k # "list"
    \/ field_type = PyStr("object") /\ value.k # "dict"

TypeCheck(r, field_path, value, field_type) ==
    IF TypeMismatch(field_type, value)
    THEN add_error(r, field_path, "Expected " \o field_type.s \o ", got " \o value.k, value)
    ELSE r

\* a validation that never looks at the enum
EnumUnchecked(r, field_path, value, enum_values) == r

EnumCheck(r, field_path, value, enum_values) ==
    IF r.exc # "" \/ ~Truthy(enum_values) THEN r
    ELSE LET c == Contains(enum_values, value)
         IN IF c = "TypeError" THEN Raise("TypeError")
            ELSE IF c = "no"
            THEN add_error(r, field_path,
                     "Value must be one of " \o str(enum_values) \o ", got " \o str(value),
                     value)
            ELSE r

PatternCheck(r, field_path, value, pattern) ==
    IF r.exc # "" \/ ~Truthy(pattern) THEN r
    ELSE IF pattern.k # "str" THEN Raise("TypeError")
    ELSE IF ~re_match(pattern.s, value.s)
    THEN add_error(r, field_path, "Value does not match pattern: " \o pattern.s, value)
    ELSE r

MinLengthCheck(r, field_path, value, min_length) ==
    IF r.exc # "" \/ min_length = None THEN r
    ELSE IF ~IsNumber(min_length) THEN Raise("TypeError")
    ELSE IF 2 * Len(value.s) < Twice(min_length)
    THEN add_error(r, field_path,
             "String must be at least " \o str(min_length) \o " characters, got "
                 \o IntStr(Len(value.s)), value)
    ELSE r

MaxLengthCheck(r, field_path, value, max_length) ==
    IF r.exc # "" \/ max_length = None THEN r
    ELSE IF ~IsNumber(max_length) THEN Raise("TypeError")
    ELSE IF 2 * Len(value.s) > Twice(max_length)
    THEN add_error(r, field_path,
             "String must be at most " \o str(max_length) \o " characters, got "
                 \o IntStr(Len(value.s)), value)
    ELSE r

\* string checks that are skipped once the type or the enum check has failed
StringChecksUnlessFailed(r, field_path, value, pattern, min_length, max_length) ==
    IF value.k # "str" \/ r.errors # <<>> THEN r
    ELSE MaxLengthCheck(
             MinLengthCheck(PatternCheck(r, field_path, value, pattern),
                            field_path, value, min_length),
             field_path, value, max_length)

StringChecks(r, field_path, value, pattern, min_length, max_length) ==
    IF value.k # "str" THEN r
    ELSE MaxLengthCheck(
             MinLengthCheck(PatternCheck(r, field_path, value, pattern),
                            field_path, value, min_length),
             field_path, value, max_length)

MinimumCheck(r, field_path, value, minimum) ==
    IF r.exc # "" \/ minimum = None THEN r
    ELSE IF ~IsNumber(minimum) THEN Raise("TypeError")
    ELSE IF Twice(value) < Twice(minimum)
    THEN add_error(r, field_path,
             "Value must be at least " \o str(minimum) \o ", got " \o str(value), value)
    ELSE r

MaximumCheck(r, field_path, value, maximum) ==
    IF r.exc # "" \/ maximum = None THEN r
    ELSE IF ~IsNumber(maximum) THEN Raise("TypeError")
    ELSE IF Twice(value) > Twice(maximum)
    THEN add_error(r, field_path,
             "Value must be at most " \o str(maximum) \o ", got " \o str(value), value)
    ELSE r

NumericChecks(r, field_path, value, minimum, maximum) ==
    IF ~IsNumber(value) THEN r
    ELSE MaximumCheck(MinimumCheck(r, field_path, value, minimum),
                      field_path, value, maximum)

\* the items of x without repetitions, in order of first occurrence
RECURSIVE Dedup(_)
Dedup(items) ==
    IF items = <<>> THEN <<>>
    ELSE LET rest == Dedup(SubSeq(items, 1, Len(items) - 1))
             last == items[Len(items)]
         IN IF \E i \in 1..Len(rest) : PyEq(rest[i], last) THEN rest ELSE Append(rest, last)

Reverse(items) == [i \in 1..Len(items) |-> items[Len(items) + 1 - i]]

\* a list's items with their repetitions kept, where set(x) would drop them
ListOf(x) ==
    IF x.k # "list" THEN [ok |-> FALSE, items |-> <<>>]
    ELSE [ok |-> TRUE, items |-> x.items]

\* set(x), as the sequence a for loop over the set visits.  The order in which
\* a set of strings is visited depends on the process's string hashing
\* (hash_order), so both orders are possible outcomes.
SetOf(x) ==
    LET elems ==
            CASE x.k = "list" -> x.items
              [] x.k = "dict" -> [i \in 1..Len(x.entries) |-> PyStr(x.entries[i][1])]
              [] x.k = "str" -> [i \in 1..Len(x.s) |-> PyStr(CharAt(x.s, i))]
              [] OTHER -> <<>>
    IN IF x.k \notin {"list", "dict", "str"} THEN [ok |-> FALSE, items |-> <<>>]
       ELSE IF \E i \in 1..Len(elems) : elems[i].k \in {"list", "dict"}
       THEN [ok |-> FALSE, items |-> <<>>]
       ELSE [ok |-> TRUE,
             items |-> IF hash_order = 0 THEN Dedup(elems) ELSE Reverse(Dedup(elems))]

\* key in obj, for a dict obj whose keys are strings
KeyIn(key, obj) == key.k = "str" /\ Has(obj, key.s)

\* for required_field in required_fields: if required_field not in obj: ...
RECURSIVE CheckRequiredFields(_, _, _, _)
CheckRequiredFields(r, required_fields, obj, field_path) ==
    IF required_fields = <<>> THEN r
    ELSE LET required_field == Head(required_fields)
             r1 == IF ~KeyIn(required_field, obj)
                   THEN add_error(r, field_path \o "." \o str(required_field),
                                  "Required field is missing", None)
                   ELSE r
         IN CheckRequiredFields(r1, Tail(required_fields), obj, field_path)

RECURSIVE validate_field_value(_, _, _)
RECURSIVE validate_object(_, _, _)
RECURSIVE validate_array(_, _, _)

\* the body of "for prop_name, prop_value in obj.items()"
ValidateProperty(r, prop_name, prop_value, properties, schema, field_path) ==
    LET declared == Contains(properties, PyStr(prop_name))
        additional_properties == Get(schema, "additionalProperties", PyBool(TRUE))
    IN IF declared = "TypeError" THEN Raise("TypeError")
       ELSE IF declared = "yes"
       THEN IF properties.k # "dict" THEN Raise("TypeError")
            ELSE Extend(r, validate_field_value(field_path \o "." \o prop_name, prop_value,
                                                Item(properties, prop_name)))
       ELSE IF additional_properties = PyBool(FALSE)
       THEN add_error(r, field_path \o "." \o prop_name, "Additional property not allowed",
                      None)
       ELSE IF additional_properties # PyBool(TRUE)
       THEN Extend(r, validate_field_value(field_path \o "." \o prop_name, prop_value,
                                           additional_properties))
       ELSE r

RECURSIVE ValidateProperties(_, _, _, _, _)
ValidateProperties(r, entries, properties, schema, field_path) ==
    IF r.exc # "" \/ entries = <<>> THEN r
    ELSE ValidateProperties(
             ValidateProperty(r, Head(entries)[1], Head(entries)[2], properties, schema,
                              field_path),
             Tail(entries), properties, schema, field_path)

validate_object(obj, schema, field_path) ==
    IF obj.k # "dict"
    THEN add_error(ValidationResult, field_path, "Expected object, got " \o obj.k, None)
    ELSE IF schema.k # "dict" THEN Raise("AttributeError")
    ELSE LET properties == Get(schema, "properties", PyDict(<<>>))
             required_fields == SetOf(Get(schema, "required", PyList(<<>>)))
         IN IF ~required_fields.ok THEN Raise("TypeError")
            ELSE ValidateProperties(
                     CheckRequiredFields(ValidationResult, required_fields.items, obj,
                                         field_path),
                     obj.entries, properties, schema, field_path)

\* for i, item in enumerate(arr): ... at path field_path[i]
RECURSIVE ValidateItems(_, _, _, _, _)
ValidateItems(r, arr, i, items_schema, field_path) ==
    IF r.exc # "" \/ i > Len(arr.items) THEN r
    ELSE ValidateItems(
             Extend(r, validate_field_value(field_path \o "[" \o IntStr(i - 1) \o "]",
                                            arr.items[i], items_schema)),
             arr, i + 1, items_schema, field_path)

\* a validation that never looks at minItems
MinItemsUnchecked(r, arr, min_items, field_path) == r

MinItemsCheck(r, arr, min_items, field_path) ==
    IF min_items = None THEN r
    ELSE IF ~IsNumber(min_items) THEN Raise("TypeError")
    ELSE IF 2 * Len(arr.items) < Twice(min_items)
    THEN add_error(r, field_path,
             "Array must have at least " \o str(min_items) \o " items, got "
                 \o IntStr(Len(arr.items)), None)
    ELSE r

MaxItemsCheck(r, arr, max_items, field_path) ==
    IF r.exc # "" \/ max_items = None THEN r
    ELSE IF ~IsNumber(max_items) THEN Raise("TypeError")
    ELSE IF 2 * Len(arr.items) > Twice(max_items)
    THEN add_error(r, field_path,
             "Array must have at most " \o str(max_items) \o " items, got "
                 \o IntStr(Len(arr.items)), None)
    ELSE r

validate_array(arr, schema, field_path) ==
    IF arr.k # "list"
    THEN add_error(ValidationResult, field_path, "Expected array, got " \o arr.k, None)
    ELSE IF schema.k # "dict" THEN Raise("AttributeError")
    ELSE LET min_items == Get(schema, "minItems", None)
             max_items == Get(schema, "maxItems", None)
             items_schema == Get(schema, "items", PyDict(<<>>))
             r2 == MaxItemsCheck(MinItemsCheck(ValidationResult, arr, min_items, field_path),
                                 arr, max_items, field_path)
         IN IF r2.exc = "" /\ Truthy(items_schema)
            THEN ValidateItems(r2, arr, 1, items_schema, field_path)
            ELSE r2

validate_field_value(field_path, value, schema) ==
    IF schema.k # "dict" THEN Raise("AttributeError")
    ELSE LET field_type == Get(schema, "type", PyStr("string"))
             enum_values == Get(schema, "enum", None)
             pattern == Get(schema, "pattern", None)
             min_length == Get(schema, "minLength", None)
             max_length == Get(schema, "maxLength", None)
             minimum == Get(schema, "minimum", None)
             maximum == Get(schema, "maximum", None)
             r1 == TypeCheck(ValidationResult, field_path, value, field_type)
             r2 == EnumCheck(r1, field_path, value, enum_values)
             r3 == StringChecks(r2, field_path, value, pattern, min_length, max_length)
             r4 == NumericChecks(r3, field_path, value, minimum, maximum)
         IN IF r4.exc # "" THEN r4
            ELSE IF field_type = PyStr("object") /\ value.k = "dict"
            THEN Extend(r4, validate_object(value, schema, field_path))
            ELSE IF field_type = PyStr("array") /\ value.k = "list"
            THEN Extend(r4, validate_array(value, schema, field_path))
            ELSE r4

----------------------------------------------------------------------------
(* validator.py: validate_headers, validate_query_params, validate_body,
   validate_path_parameters, _add_suggestions, validate_request *)

\* a or b
Or(a, b) == IF Truthy(a) THEN a ELSE b

\* a lookup that tells the spellings of a header name apart
HeaderFoundExact(header_name, headers_arg) == Has(headers_arg, header_name)

\* for actual_header in headers.keys(): if actual_header.lower() == header_name.lower()
HeaderFound(header_name, headers_arg) ==
    \E i \in 1..Len(headers_arg.entries) :
        lower(headers_arg.entries[i][1]) = lower(header_name)

\* "Check required headers"
RECURSIVE CheckRequiredHeaders(_, _, _)
CheckRequiredHeaders(r, schema_entries, headers_arg) ==
    IF r.exc # "" \/ schema_entries = <<>> THEN r
    ELSE LET header_name == Head(schema_entries)[1]
             header_def == Head(schema_entries)[2]
             r1 == IF header_def.k # "dict" THEN Raise("AttributeError")
                   ELSE IF Truthy(Get(header_def, "required", PyBool(FALSE)))
                           /\ ~HeaderFound(header_name, headers_arg)
                   THEN add_error(r, "headers." \o header_name, "Required header is missing",
                                  None)
                   ELSE r
         IN CheckRequiredHeaders(r1, Tail(schema_entries), headers_arg)

\* "Find matching schema (case-insensitive)": the index of the first declared
\* header equal to header_name ignoring case, 0 when there is none
MatchingHeader(headers_schema, header_name) ==
    LET matches == {i \in 1..Len(headers_schema.entries) :
                        lower(headers_schema.entries[i][1]) = lower(header_name)}
    IN IF matches = {} THEN 0 ELSE CHOOSE i \in matches : \A j \in matches : i <= j

\* "Validate header values"
RECURSIVE ValidateHeaderValues(_, _, _)
ValidateHeaderValues(r, entries, headers_schema) ==
    IF r.exc # "" \/ entries = <<>> THEN r
    ELSE LET header_name == Head(entries)[1]
             header_value == Head(entries)[2]
             m == MatchingHeader(headers_schema, header_name)
             schema_def == IF m = 0 THEN None ELSE headers_schema.entries[m][2]
             r1 == IF Truthy(schema_def)
                   THEN Extend(r, validate_field_value(
                                      "headers." \o headers_schema.entries[m][1],
                                      header_value, schema_def))
                   ELSE add_warning(r, "Unexpected header: " \o header_name)
         IN ValidateHeaderValues(r1, Tail(entries), headers_schema)

validate_headers(headers_schema, headers_arg) ==
    ValidateHeaderValues(
        CheckRequiredHeaders(ValidationResult, headers_schema.entries, headers_arg),
        headers_arg.entries, headers_schema)

\* "Check required parameters"
RECURSIVE CheckRequiredParams(_, _, _)
CheckRequiredParams(r, schema_entries, params) ==
    IF r.exc # "" \/ schema_entries = <<>> THEN r
    ELSE LET param_name == Head(schema_entries)[1]
             param_def == Head(schema_entries)[2]
             r1 == IF param_def.k # "dict" THEN Raise("AttributeError")
                   ELSE IF Truthy(Get(param_def, "required", PyBool(FALSE)))
                           /\ ~Has(params, param_name)
                   THEN add_error(r, "query." \o param_name,
                                  "Required query parameter is missing", None)
                   ELSE r
         IN CheckRequiredParams(r1, Tail(schema_entries), params)

\* "Validate parameter values"
RECURSIVE ValidateParamValues(_, _, _)
ValidateParamValues(r, entries, query_schema) ==
    IF r.exc # "" \/ entries = <<>> THEN r
    ELSE LET param_name == Head(entries)[1]
             param_value == Head(entries)[2]
             r1 == IF Has(query_schema, param_name)
                   THEN Extend(r, validate_field_value("query." \o param_name, param_value,
                                                       Item(query_schema, param_name)))
                   ELSE add_warning(r, "Unexpected query parameter: " \o param_name)
         IN ValidateParamValues(r1, Tail(entries), query_schema)

validate_query_params(query_schema, params) ==
    ValidateParamValues(
        CheckRequiredParams(ValidationResult, query_schema.entries, params),
        params.entries, query_schema)

validate_body(body_schema, body_arg) ==
    IF body_arg = None
    THEN IF Truthy(Get(body_schema, "required", PyBool(FALSE)))
         THEN add_error(ValidationResult, "body", "Request body is required", None)
         ELSE ValidationResult
    ELSE IF body_arg.k = "str" /\ ~json_loads(body_arg.s).ok
    THEN add_error(ValidationResult, "body", "Request body must be valid JSON", None)
    ELSE LET parsed == IF body_arg.k = "str" THEN json_loads(body_arg.s).value ELSE body_arg
             schema_type == Get(body_schema, "type", PyStr("object"))
         IN IF schema_type = PyStr("object")
            THEN Extend(ValidationResult, validate_object(parsed, body_schema, "body"))
            ELSE IF schema_type = PyStr("array")
            THEN Extend(ValidationResult, validate_array(parsed, body_schema, "body"))
            ELSE Extend(ValidationResult, validate_field_value("body", parsed, body_schema))

\* the loop over zip(schema_parts, actual_parts), from position i (1-based here,
\* reported 0-based as enumerate counts)
RECURSIVE ComparePathParts(_, _, _, _)
ComparePathParts(r, schema_parts, actual_parts, i) ==
    IF i > Len(schema_parts) THEN r
    ELSE LET schema_part == schema_parts[i]
             actual_part == actual_parts[i]
             r1 == IF startswith(schema_part, "{") /\ endswith(schema_part, "}")
                   THEN IF actual_part = ""
                        THEN add_error(r,
                                 "path." \o SubSeq(schema_part, 2, Len(schema_part) - 1),
                                 "Path parameter cannot be empty", None)
                        ELSE r
                   ELSE IF schema_part # actual_part
                   THEN add_error(r, "path",
                            "Path segment mismatch at position " \o IntStr(i - 1)
                                \o ": expected '" \o schema_part \o "', got '"
                                \o actual_part \o "'", None)
                   ELSE r
         IN ComparePathParts(r1, schema_parts, actual_parts, i + 1)

\* a path check that goes on to compare the zipped segments after a structure
\* mismatch
validate_path_zipped(schema_path, actual_path) ==
    LET schema_parts == split(strip(schema_path, "/"), "/")
        actual_parts == split(strip(actual_path, "/"), "/")
        n == IF Len(schema_parts) < Len(actual_parts)
             THEN Len(schema_parts) ELSE Len(actual_parts)
        r == IF Len(schema_parts) # Len(actual_parts)
             THEN add_error(ValidationResult, "path",
                      "Path structure mismatch: expected " \o schema_path \o ", got "
                          \o actual_path, None)
             ELSE ValidationResult
    IN ComparePathParts(r, SubSeq(schema_parts, 1, n), SubSeq(actual_parts, 1, n), 1)

validate_path_parameters(schema_path, actual_path) ==
    LET schema_parts == split(strip(schema_path, "/"), "/")
        actual_parts == split(strip(actual_path, "/"), "/")
    IN IF Len(schema_parts) # Len(actual_parts)
       THEN add_error(ValidationResult, "path",
                "Path structure mismatch: expected " \o schema_path \o ", got " \o actual_path,
                None)
       ELSE ComparePathParts(ValidationResult, schema_parts, actual_parts, 1)

\* has the optional field a default that makes the code suggest it
SuggestsDefault(field_def) ==
    /\ ~Truthy(Get(field_def, "required", PyBool(FALSE)))
    /\ Truthy(Get(field_def, "default", None))

\* "Suggest missing optional fields with defaults", for one schema map; what is
\* the text that names the kind of field ("header", "query parameter")
RECURSIVE SuggestDefaults(_, _, _, _)
SuggestDefaults(r, schema_entries, supplied, what) ==
    IF schema_entries = <<>> THEN r
    ELSE LET name == Head(schema_entries)[1]
             def == Head(schema_entries)[2]
             r1 == IF SuggestsDefault(def) /\ (~Truthy(supplied) \/ ~Has(supplied, name))
                   THEN add_suggestion(r,
                            "Consider adding " \o what \o " '" \o name
                                \o "' with default value: " \o str(Item(def, "default")))
                   ELSE r
         IN SuggestDefaults(r1, Tail(schema_entries), supplied, what)

add_suggestions(r, ep, headers_arg, query_arg, body_arg) ==
    LET r1 == IF Truthy(ep.headers)
              THEN SuggestDefaults(r, ep.headers.entries, headers_arg, "header")
              ELSE r
        r2 == IF Truthy(ep.query_params)
              THEN SuggestDefaults(r1, ep.query_params.entries, query_arg, "query parameter")
              ELSE r1
    IN IF Truthy(ep.body_schema) /\ ~Truthy(body_arg)
          /\ Truthy(Get(ep.body_schema, "example", None))
       THEN add_suggestion(r2, "Example request body: "
                                   \o json_dumps(Item(ep.body_schema, "example"), 0))
       ELSE r2

\* "Validate method matches"
MethodCheck(r, ep, method_arg) ==
    IF Truthy(method_arg) /\ upper(method_arg.s) # ep.method
    THEN add_error(r, "method", "Expected " \o ep.method \o ", got " \o upper(method_arg.s),
                   None)
    ELSE r

HeadersCheck(r, ep, headers_arg) ==
    IF Truthy(ep.headers)
    THEN Extend(r, validate_headers(ep.headers, Or(headers_arg, PyDict(<<>>))))
    ELSE r

QueryCheck(r, ep, query_arg) ==
    IF r.exc = "" /\ Truthy(ep.query_params)
    THEN Extend(r, validate_query_params(ep.query_params, Or(query_arg, PyDict(<<>>))))
    ELSE r

BodyCheck(r, ep, body_arg) ==
    IF r.exc # "" THEN r
    ELSE IF Truthy(ep.body_schema) THEN Extend(r, validate_body(ep.body_schema, body_arg))
    ELSE IF Truthy(body_arg)
    THEN add_warning(r, "Request body provided but not expected by schema")
    ELSE r

PathCheck(r, ep, path_arg) ==
    IF r.exc = "" /\ Truthy(path_arg)
    THEN ExtendErrors(r, validate_path_parameters(ep.path, path_arg.s))
    ELSE r

\* "Update overall validity"
\* a report left with the validity its own add_error calls gave it
KeepValidity(r) == r

UpdateValidity(r) == [r EXCEPT !.is_valid = (Len(r.errors) = 0)]

validate_request(ep, headers_arg, query_arg, body_arg, method_arg, path_arg) ==
    LET checked ==
            PathCheck(
                BodyCheck(
                    QueryCheck(
                        HeadersCheck(MethodCheck(ValidationResult, ep, method_arg),
                                     ep, headers_arg),
                        ep, query_arg),
                    ep, body_arg),
                ep, path_arg)
    IN IF checked.exc # "" THEN checked
       ELSE add_suggestions(UpdateValidity(checked), ep, headers_arg, query_arg, body_arg)

----------------------------------------------------------------------------
(* schema_loader.py: the SchemaEndpoint model *)

SchemaEndpoint(method_, path_) ==
    [method |-> method_, path |-> path_, summary |-> None, description |-> None,
     headers |-> PyDict(<<>>), query_params |-> PyDict(<<>>), body_schema |-> None,
     auth_schema |-> None, responses |-> PyDict(<<>>)]

----------------------------------------------------------------------------
(* The requests the validator is run on *)

MaxHeaders == 2          \* headers an endpoint declares
MaxSuppliedHeaders == 2  \* headers a request supplies
MaxParams == 2           \* query parameters declared, and supplied
MaxRequired == 2         \* length of an object schema's required list
MaxBodyFields == 2       \* properties of a supplied body
MaxPathTokens == 4       \* pieces a supplied path is put together from
MaxEnum == 2             \* values an enum lists
MaxArrayBound == 2       \* largest minItems / maxItems of an array schema

SeqsUpTo(S, n) == UNION {[1..m -> S] : m \in 0..n}

\* the entry sequences of the dicts with at most n keys from K and values from V
EntriesOver(K, V, n) ==
    {e \in SeqsUpTo(K \X V, n) :
        \A i \in 1..Len(e) : \A j \in 1..Len(e) : i # j => e[i][1] # e[j][1]}

DictsOver(K, V, n) == {PyDict(e) : e \in EntriesOver(K, V, n)}

DeclaredHeaderNames == {"X-Key", "x-key", "Accept"}
SuppliedHeaderNames == {"X-Key", "x-key", "X-KEY", "Accept"}

\* header definitions as _parse_endpoint builds them (keys that are None there
\* and read with .get here are left out where it makes no difference)
HeaderDefs ==
    {PyDict(<< <<"type", PyStr("string")>>, <<"required", PyBool(TRUE)>>,
               <<"default", None>> >>),
     PyDict(<< <<"type", PyStr("string")>>, <<"required", PyBool(FALSE)>>,
               <<"default", PyStr("v")>> >>),
     PyDict(<< <<"type", PyStr("integer")>>, <<"required", PyBool(TRUE)>>,
               <<"default", None>> >>)}

QueryNames == {"page", "size"}

QueryDefs ==
    {PyDict(<< <<"type", PyStr("string")>>, <<"required", PyBool(FALSE)>>,
               <<"default", PyStr("1")>> >>),
     PyDict(<< <<"type", PyStr("integer")>>, <<"required", PyBool(FALSE)>>,
               <<"default", PyInt(1)>> >>),
     PyDict(<< <<"type", PyStr("integer")>>, <<"required", PyBool(FALSE)>>,
               <<"default", PyInt(0)>> >>),
     PyDict(<< <<"type", PyStr("string")>>, <<"required", PyBool(FALSE)>>,
               <<"default", None>> >>),
     PyDict(<< <<"type", PyStr("string")>>, <<"required", PyBool(TRUE)>>,
               <<"default", PyStr("1")>> >>)}

BodyNames == {"a", "b"}

\* a: an integer; b: an object that itself requires a string b
BodyProperties ==
    PyDict(<< <<"a", PyDict(<< <<"type", PyStr("integer")>> >>)>>,
              <<"b", PyDict(<< <<"type", PyStr("object")>>,
                               <<"required", PyList(<<PyStr("b")>>)>>,
                               <<"properties",
                                 PyDict(<< <<"b", PyDict(<< <<"type", PyStr("string")>> >>)>> >>)>>
                            >>)>> >>)

\* what an object schema's "required" holds: a list of names, or (as the
\* parameter definitions and the request-body objects of a document do) a boolean
RequiredValues ==
    {PyList([i \in 1..Len(q) |-> PyStr(q[i])]) : q \in SeqsUpTo(BodyNames, MaxRequired)}
        \cup {PyBool(TRUE), PyBool(FALSE)}

\* a keyword a schema may leave out
Optional(key, values) == {<<>>} \cup {<< <<key, v>> >> : v \in values}

BodySchemas ==
    {PyDict(<< <<"type", PyStr("object")>>, <<"required", req>> >> \o props \o addl) :
        req \in RequiredValues,
        props \in {<<>>, << <<"properties", BodyProperties>> >>},
        addl \in Optional("additionalProperties",
                          {PyBool(FALSE), PyBool(TRUE),
                           PyDict(<< <<"type", PyStr("integer")>> >>)})}

BodyFieldValues == {PyInt(1), PyStr("x"), PyDict(<<>>)}

Bodies ==
    DictsOver(BodyNames, BodyFieldValues, MaxBodyFields)
        \cup {None, PyStr("{}"), PyStr("[]"), PyStr("oops")}

PathTemplates == {"/users/{id}", "/users/{id}/posts", "/{id}", "/users", "/users/posts"}

PathTokens == {"/", "users", "42", "posts"}

RECURSIVE Concat(_)
Concat(parts) == IF parts = <<>> THEN "" ELSE Head(parts) \o Concat(Tail(parts))

Paths == {Concat(q) : q \in SeqsUpTo(PathTokens, MaxPathTokens)}

\* what a specification of the validator leaves alone
NoLoader == schema_data = None /\ api_schema = None
NoPrompter == answers = <<>> /\ frames = <<>> /\ prompted = None
NoStorage == files = None /\ calls = <<>>

InitHeaders ==
    /\ \E declared \in DictsOver(DeclaredHeaderNames, HeaderDefs, MaxHeaders) :
          endpoint = [SchemaEndpoint("GET", "/users") EXCEPT !.headers = declared]
    /\ headers \in DictsOver(SuppliedHeaderNames, {PyStr("v")}, MaxSuppliedHeaders) \cup {None}
    /\ query_params = None
    /\ body = None
    /\ method = PyStr("post")
    /\ path = None
    /\ hash_order = 0

InitQuery ==
    /\ \E declared \in DictsOver(QueryNames, QueryDefs, MaxParams) :
          endpoint = [SchemaEndpoint("GET", "/users") EXCEPT !.query_params = declared]
    /\ headers = None
    /\ query_params \in DictsOver(QueryNames, {PyStr("1"), PyInt(1)}, MaxParams) \cup {None}
    /\ body = None
    /\ method \in {PyStr("get"), PyStr("post")}
    /\ path = None
    /\ hash_order = 0

InitBody ==
    /\ \E body_schema \in BodySchemas :
          endpoint = [SchemaEndpoint("POST", "/users") EXCEPT !.body_schema = body_schema]
    /\ headers = None
    /\ query_params = None
    /\ body \in Bodies
    /\ method = None
    /\ path = None
    /\ hash_order \in {0, 1}

InitPath ==
    /\ \E template \in PathTemplates : endpoint = SchemaEndpoint("GET", template)
    /\ headers = None
    /\ query_params = None
    /\ body = None
    /\ method = PyStr("GET")
    /\ path \in {PyStr(p) : p \in Paths} \cup {None}
    /\ hash_order = 0

\* one declared parameter of each scalar kind, as _parse_endpoint builds it; the
\* first is the "validate" parameter of the demonstration's endpoint
TypedDefs ==
    {PyDict(<< <<"type", PyStr("boolean")>>, <<"default", PyBool(FALSE)>> >>)}
        \cup {PyDict(<< <<"type", PyStr(t)>>, <<"required", PyBool(FALSE)>>,
                        <<"default", None>> >>) :
                 t \in {"boolean", "integer", "number", "string"}}

\* values of every runtime kind, the strings among them being what a prompt
\* for a boolean, an integer or a number leaves in the request
TypedValues ==
    {PyStr("true"), PyStr("false"), PyStr("5"), PyStr("-3"), PyStr("2.5"), PyStr("5.0"),
     PyStr("x"), PyBool(TRUE), PyInt(5), PyFloat(5), PyFloat(10)}

\* a request with one typed header or one typed query parameter
InitTyped ==
    /\ \E def \in TypedDefs, value \in TypedValues, place \in {"headers", "query"} :
          /\ endpoint = [SchemaEndpoint("POST", "/users") EXCEPT
                            !.headers = IF place = "headers"
                                        THEN PyDict(<< <<"X-Flag", def>> >>)
                                        ELSE PyDict(<<>>),
                            !.query_params = IF place = "query"
                                             THEN PyDict(<< <<"validate", def>> >>)
                                             ELSE PyDict(<<>>)]
          /\ headers = IF place = "headers" THEN PyDict(<< <<"X-Flag", value>> >>) ELSE None
          /\ query_params = IF place = "query" THEN PyDict(<< <<"validate", value>> >>)
                            ELSE None
    /\ body = None
    /\ method = PyStr("POST")
    /\ path = None
    /\ hash_order = 0

\* the schemas of one body field: a string with an enum, an array with length
\* bounds (with and without an item schema), and one schema of each declared kind
EnumLists ==
    {PyList([i \in 1..Len(q) |-> PyStr(q[i])]) : q \in SeqsUpTo({"x", "y"}, MaxEnum)}

\* schemas that constrain a string by enum, pattern and length, also under a
\* declared type the value is not of
StringSchemas ==
    {PyDict(<< <<"type", PyStr(t)>> >> \o e \o p \o lo \o hi) :
        t \in {"string", "integer"},
        e \in Optional("enum", {PyList(<<PyStr("y")>>)}),
        p \in Optional("pattern", {PyStr("x"), PyStr("^x$")}),
        lo \in Optional("minLength", {PyInt(2)}),
        hi \in Optional("maxLength", {PyInt(0)})}

\* schemas that constrain a number by enum, minimum and maximum
NumericSchemas ==
    {PyDict(<< <<"type", PyStr(t)>> >> \o e \o lo \o hi) :
        t \in {"integer", "number", "string"},
        e \in Optional("enum", {PyList(<<PyStr("y")>>)}),
        lo \in Optional("minimum", {PyInt(2)}),
        hi \in Optional("maximum", {PyInt(0)})}

FieldSchemas ==
    {PyDict(<< <<"type", PyStr("string")>>, <<"enum", E>> >>) : E \in EnumLists}
        \cup {PyDict(<< <<"type", PyStr("array")>>, <<"minItems", PyInt(m)>>,
                        <<"maxItems", PyInt(M)>> >> \o items) :
                 m \in 0..MaxArrayBound, M \in 0..MaxArrayBound,
                 items \in {<<>>, << <<"items", PyDict(<< <<"type", PyStr("integer")>> >>)>> >>}}
        \cup {PyDict(<< <<"type", PyStr(t)>> >>) :
                 t \in {"string", "integer", "number", "boolean", "array", "object"}}
        \cup StringSchemas
        \cup NumericSchemas

\* values of every runtime kind; the lists run to one item more than the
\* largest bound and hold integers and strings
FieldValues ==
    {PyStr("x"), PyStr("y"), PyStr("z"), PyStr("xy"), PyBool(TRUE), PyBool(FALSE), PyInt(1),
     PyFloat(5), PyFloat(4), PyDict(<<>>)}
        \cup {PyList(q) : q \in SeqsUpTo({PyInt(1), PyStr("x")}, MaxArrayBound + 1)}

\* a request whose body is an object with the one field f
InitField ==
    /\ \E schema \in FieldSchemas :
          endpoint = [SchemaEndpoint("POST", "/items") EXCEPT
                         !.body_schema =
                             PyDict(<< <<"type", PyStr("object")>>,
                                       <<"properties", PyDict(<< <<"f", schema>> >>)>> >>)]
    /\ headers = None
    /\ query_params = None
    /\ \E value \in FieldValues : body = PyDict(<< <<"f", value>> >>)
    /\ method = PyStr("POST")
    /\ path = None
    /\ hash_order = 0

Init ==
    /\ pc = "ready"
    /\ result = None
    /\ NoLoader
    /\ NoPrompter
    /\ NoStorage
    /\ (InitHeaders \/ InitQuery \/ InitBody \/ InitPath \/ InitTyped \/ InitField)

\* the caller runs validate_request on the request it assembled
ValidateRequest ==
    /\ pc = "ready"
    /\ result' = validate_request(endpoint, headers, query_params, body, method, path)
    /\ pc' = IF result'.exc = "" THEN "returned" ELSE "raised"
    /\ UNCHANGED <<files, calls,
                   endpoint, headers, query_params, body, method, path, schema_data,
                   api_schema, hash_order, answers, frames, prompted>>

Next == ValidateRequest

Spec == Init /\ [][Next]_vars

----------------------------------------------------------------------------
(* Properties of validate_request *)

Returned == pc = "returned"

\* the positions of the errors a report records on a field
ErrorsAt(r, field) == {i \in 1..Len(r.errors) : r.errors[i].field = field}

\* the positions of the errors on a field that carry a given message
ErrorsWith(r, field, message) ==
    {i \in ErrorsAt(r, field) : r.errors[i].message = message}

SuppliedHeaders == IF headers = None THEN {} ELSE {headers.entries[i][1] : i \in 1..Len(headers.entries)}

RequiredHeaders ==
    {endpoint.headers.entries[i][1] : i \in
        {j \in 1..Len(endpoint.headers.entries) :
            Get(endpoint.headers.entries[j][2], "required", PyBool(FALSE)) = PyBool(TRUE)}}

\* C1: for every header H an endpoint declares required, the report has exactly
\* one error on headers.H when no supplied header equals H ignoring case, and no
\* "Required header is missing" error on headers.H when one does, in any case
\* variant.
C1_RequiredHeader ==
    Returned =>
        \A H \in RequiredHeaders :
            IF \E h \in SuppliedHeaders : lower(h) = lower(H)
            THEN ErrorsWith(result, "headers." \o H, "Required header is missing") = {}
            ELSE Cardinality(ErrorsAt(result, "headers." \o H)) = 1

\* a required header supplied under another spelling is not reported, while a
\* required header that is absent is
C1_Witness ==
    /\ Returned
    /\ \E H \in RequiredHeaders : \E h \in SuppliedHeaders :
          h # H /\ lower(h) = lower(H) /\ ErrorsAt(result, "headers." \o H) = {}
    /\ \E H \in RequiredHeaders :
          /\ \A h \in SuppliedHeaders : lower(h) # lower(H)
          /\ Cardinality(ErrorsAt(result, "headers." \o H)) = 1

BodySchemaRequired == Get(endpoint.body_schema, "required", PyList(<<>>))

\* the names an object body schema requires, when its required is a list
RequiredNames ==
    {BodySchemaRequired.items[i].s : i \in 1..Len(BodySchemaRequired.items)}

ObjectBodyChecked ==
    /\ Returned
    /\ endpoint.body_schema # None
    /\ body.k = "dict"
    /\ BodySchemaRequired.k = "list"

\* C2: validating a map body against an object schema with required set R, every
\* name of R absent from the body has exactly one error, at body.<name>, saying
\* the required field is missing, and no name present in the body has such an
\* error.
C2_RequiredFields ==
    ObjectBodyChecked =>
        \A name \in RequiredNames :
            IF Has(body, name)
            THEN ErrorsWith(result, "body." \o name, "Required field is missing") = {}
            ELSE /\ Cardinality(ErrorsAt(result, "body." \o name)) = 1
                 /\ ErrorsWith(result, "body." \o name, "Required field is missing")
                        = ErrorsAt(result, "body." \o name)

\* required {a, b}, body {a: 1}: one error on body.b, none on body.a
C2_Witness ==
    /\ ObjectBodyChecked
    /\ RequiredNames = {"a", "b"}
    /\ body = PyDict(<< <<"a", PyInt(1)>> >>)
    /\ Cardinality(ErrorsAt(result, "body.b")) = 1
    /\ ErrorsAt(result, "body.a") = {}

PathChecked == Returned /\ path # None /\ path.s # ""

\* a path's segments as the text between its slashes, after its leading slash
RawSegments(p) == split(IF startswith(p, "/") THEN SubSeq(p, 2, Len(p)) ELSE p, "/")

IsPlaceholder(segment) == startswith(segment, "{") /\ endswith(segment, "}")

PlaceholderName(segment) == SubSeq(segment, 2, Len(segment) - 1)

\* C5: for each placeholder segment of the template whose corresponding segment
\* of the actual path is empty, the report has an error on path.<placeholder
\* name>; in particular /users/{id} against /users/ has an error on path.id.
C5_EmptyPlaceholder ==
    PathChecked =>
        LET template == RawSegments(endpoint.path)
            actual == RawSegments(path.s)
        IN Len(template) = Len(actual) =>
              \A i \in 1..Len(template) :
                  IsPlaceholder(template[i]) /\ actual[i] = ""
                      => ErrorsAt(result, "path." \o PlaceholderName(template[i])) # {}

\* the segments the path check compares
CheckedSegments(p) == split(strip(p, "/"), "/")

PathErrors ==
    {i \in 1..Len(result.errors) :
        result.errors[i].field = "path" \/ startswith(result.errors[i].field, "path.")}

SegmentsAgree(template, actual) ==
    /\ Len(template) = Len(actual)
    /\ \A i \in 1..Len(template) :
          IF IsPlaceholder(template[i]) THEN actual[i] # "" ELSE template[i] = actual[i]

SuppliedParams ==
    IF query_params = None THEN {}
    ELSE {query_params.entries[i][1] : i \in 1..Len(query_params.entries)}

\* the suggestions of the report that equal a given text
SuggestionsOf(text) == {i \in 1..Len(result.suggestions) : result.suggestions[i] = text}

\* C7: every optional query parameter that has a default, whatever its value,
\* and is not supplied gets exactly one suggestion naming it and its default;
\* a supplied parameter gets none.
C7_DefaultSuggested ==
    Returned =>
        \A i \in 1..Len(endpoint.query_params.entries) :
            LET name == endpoint.query_params.entries[i][1]
                def == endpoint.query_params.entries[i][2]
                text == "Consider adding query parameter '" \o name
                            \o "' with default value: " \o str(Get(def, "default", None))
            IN Get(def, "required", PyBool(FALSE)) = PyBool(FALSE)
                  /\ Get(def, "default", None) # None =>
                  Cardinality(SuggestionsOf(text)) = IF name \in SuppliedParams THEN 0 ELSE 1

\* C8: validate_request returns a report for every endpoint schema and every
\* request: it never raises.
C8_NeverRaises == pc # "raised"

\* C9: the report validate_request returns has is_valid true exactly when it
\* records no error, whatever warnings and suggestions it carries.
C9_ValidIffNoErrors ==
    Returned => (result.is_valid <=> result.errors = <<>>)

\* a report with a warning and a suggestion and no error is valid
C9_Witness ==
    /\ Returned
    /\ result.errors = <<>>
    /\ result.warnings # <<>>
    /\ result.suggestions # <<>>
    /\ result.is_valid

C9_WitnessInvalid ==
    /\ Returned
    /\ result.errors # <<>>
    /\ ~result.is_valid

----------------------------------------------------------------------------
(* schema_loader.py: _resolve_schema_ref, _parse_endpoint,
   _parse_openapi_schema, load_schema_from_file *)

\* what a loader function hands back: the value it returned, or the exception
\* it raised
Return(v) == [exc |-> "", value |-> v]
Raises(e) == [exc |-> e, value |-> None]

\* a schema left with the default title and version of the APISchema class
APISchemaUntitled(title_, version_, base_url_, components_, security_schemes_) ==
    [title |-> PyStr("API"), version |-> PyStr("1.0.0"), base_url |-> base_url_,
     endpoints |-> <<>>, components |-> components_,
     security_schemes |-> security_schemes_]

APISchema(title_, version_, base_url_, components_, security_schemes_) ==
    [title |-> title_, version |-> version_, base_url |-> base_url_, endpoints |-> <<>>,
     components |-> components_, security_schemes |-> security_schemes_]

HttpMethods == {"get", "post", "put", "patch", "delete", "head", "options"}

\* what "for x in v" visits, and whether v can be iterated at all
Iterable(v) == v.k \in {"list", "dict", "str"}

IterItems(v) ==
    CASE v.k = "list" -> v.items
      [] v.k = "dict" -> [i \in 1..Len(v.entries) |-> PyStr(v.entries[i][1])]
      [] v.k = "str" -> [i \in 1..Len(v.s) |-> PyStr(CharAt(v.s, i))]

\* d.get(key, default) on a value that need not be a dict
GetFrom(d, key, default) ==
    IF d.k # "dict" THEN Raises("AttributeError") ELSE Return(Get(d, key, default))

RECURSIVE resolve_schema_ref(_, _)

\* "Recursively resolve refs in properties": the entries of the resolved
\* properties, or the exception a nested resolution raised
\* resolved_schema["properties"][prop_name] = the resolved property
AddResolved(done, prop_name, resolved) ==
    IF resolved.exc # "" THEN resolved
    ELSE Return(Append(done.value, <<prop_name, resolved.value>>))

RECURSIVE ResolveProperties(_, _, _)
ResolveProperties(done, entries, components) ==
    IF done.exc # "" \/ entries = <<>> THEN done
    ELSE ResolveProperties(
             AddResolved(done, Head(entries)[1],
                         resolve_schema_ref(Head(entries)[2], components)),
             Tail(entries), components)

\* components.get("schemas", {}).get(schema_name, {})
LookupSchema(schemas, schema_name) ==
    IF schemas.exc # "" THEN schemas
    ELSE GetFrom(schemas.value, schema_name, PyDict(<<>>))

\* the copy of schema whose properties are the resolved ones
WithProperties(schema, resolved) ==
    IF resolved.exc # "" THEN resolved
    ELSE Return(SetItem(schema, "properties", PyDict(resolved.value)))

resolve_schema_ref(schema, components) ==
    IF schema.k # "dict" THEN Raises("TypeError")
    ELSE IF Has(schema, "$ref") /\ Item(schema, "$ref").k # "str" THEN Raises("AttributeError")
    ELSE IF Has(schema, "$ref") /\ startswith(Item(schema, "$ref").s, "#/components/schemas/")
    THEN LET parts == split(Item(schema, "$ref").s, "/")
         IN LookupSchema(GetFrom(components, "schemas", PyDict(<<>>)), parts[Len(parts)])
    ELSE IF Has(schema, "properties")
    THEN IF Item(schema, "properties").k # "dict" THEN Raises("AttributeError")
         ELSE WithProperties(schema,
                  ResolveProperties(Return(<<>>), Item(schema, "properties").entries,
                                    components))
    ELSE Return(schema)

\* the body of "for param in parameters", on the endpoint built so far
ParseParameter(ep, param) ==
    IF param.k # "dict" THEN Raises("AttributeError")
    ELSE LET param_name == Get(param, "name", None)
             param_in == Get(param, "in", None)
             param_schema == Get(param, "schema", PyDict(<<>>))
         IN IF param_schema.k # "dict" THEN Raises("AttributeError")
            ELSE LET param_def ==
                         PyDict(<< <<"type", Get(param_schema, "type", PyStr("string"))>>,
                                   <<"required", Get(param, "required", PyBool(FALSE))>>,
                                   <<"description", Get(param, "description", PyStr(""))>>,
                                   <<"default", Get(param_schema, "default", None)>>,
                                   <<"enum", Get(param_schema, "enum", None)>>,
                                   <<"example", Or(Get(param, "example", None),
                                                   Get(param_schema, "example", None))>> >>)
                 IN IF param_in = PyStr("header")
                    THEN Return([ep EXCEPT !.headers = SetItem(@, param_name.s, param_def)])
                    ELSE IF param_in = PyStr("query")
                    THEN Return([ep EXCEPT !.query_params = SetItem(@, param_name.s, param_def)])
                    ELSE Return(ep)

RECURSIVE ParseParameters(_, _)
ParseParameters(done, params) ==
    IF done.exc # "" \/ params = <<>> THEN done
    ELSE ParseParameters(ParseParameter(done.value, Head(params)), Tail(params))

ContentTypes ==
    <<"application/json", "application/x-www-form-urlencoded", "multipart/form-data">>

\* self._resolve_schema_ref(schema, components) of the media type's schema
ResolveBody(schema, components) ==
    IF schema.exc # "" THEN schema ELSE resolve_schema_ref(schema.value, components)

\* endpoint.body_schema = the resolved schema
StoreBody(ep, resolved) ==
    IF resolved.exc # "" THEN resolved
    ELSE Return([ep EXCEPT !.body_schema = resolved.value])

\* "Parse request body", on the endpoint built so far
ParseRequestBody(ep, method_data, components) ==
    LET request_body == Get(method_data, "requestBody", PyDict(<<>>))
    IN IF ~Truthy(request_body) THEN Return(ep)
       ELSE IF request_body.k # "dict" THEN Raises("AttributeError")
       ELSE LET content == Get(request_body, "content", PyDict(<<>>))
                present == {i \in 1..Len(ContentTypes) :
                               Contains(content, PyStr(ContentTypes[i])) = "yes"}
            IN IF Contains(content, PyStr(ContentTypes[1])) = "TypeError"
               THEN Raises("TypeError")
               ELSE IF present = {} THEN Return(ep)
               ELSE IF content.k # "dict" THEN Raises("TypeError")
               ELSE LET first == CHOOSE i \in present : \A j \in present : i <= j
                        media == Item(content, ContentTypes[first])
                    IN StoreBody(ep, ResolveBody(GetFrom(media, "schema", PyDict(<<>>)),
                                                 components))

\* "Parse security requirements", on the endpoint built so far
ParseSecurity(ep, method_data) ==
    LET security == Get(method_data, "security", PyList(<<>>))
    IN IF ~Truthy(security) THEN Return(ep)
       ELSE IF security.k # "list" THEN Raises("TypeError")
       ELSE IF security.items[1].k # "dict" THEN Raises("AttributeError")
       ELSE IF security.items[1].entries = <<>> THEN Return(ep)
       ELSE Return([ep EXCEPT !.auth_schema =
                       PyDict(<< <<"scheme", PyStr(security.items[1].entries[1][1])>>,
                                 <<"type", PyStr("bearer")>> >>)])

\* the steps of _parse_endpoint, each on what the steps before it made of the
\* endpoint: an exception raised by one step skips the steps after it
ParametersStep(ep, method_data) ==
    IF ~Iterable(Get(method_data, "parameters", PyList(<<>>))) THEN Raises("TypeError")
    ELSE ParseParameters(Return(ep), IterItems(Get(method_data, "parameters", PyList(<<>>))))

RequestBodyStep(parsed, method_data, components) ==
    IF parsed.exc # "" THEN parsed
    ELSE ParseRequestBody(parsed.value, method_data, components)

SecurityStep(parsed, method_data) ==
    IF parsed.exc # "" THEN parsed ELSE ParseSecurity(parsed.value, method_data)

ResponsesStep(parsed, method_data) ==
    IF parsed.exc # "" THEN parsed
    ELSE Return([parsed.value EXCEPT
                    !.responses = Get(method_data, "responses", PyDict(<<>>))])

parse_endpoint(path_, method_, method_data, components) ==
    IF method_data.k # "dict" THEN Raises("AttributeError")
    ELSE ResponsesStep(
             SecurityStep(
                 RequestBodyStep(
                     ParametersStep(
                         [SchemaEndpoint(method_, path_) EXCEPT
                             !.summary = Get(method_data, "summary", None),
                             !.description = Get(method_data, "description", None)],
                         method_data),
                     method_data, components),
                 method_data),
             method_data)

\* "for method, method_data in path_data.items()"
\* api_schema.endpoints.append(endpoint)
AddEndpoint(done, parsed) ==
    IF parsed.exc # "" THEN parsed
    ELSE Return([done.value EXCEPT !.endpoints = Append(@, parsed.value)])

RECURSIVE ParseMethods(_, _, _)
ParseMethods(done, path_, method_entries) ==
    IF done.exc # "" \/ method_entries = <<>> THEN done
    ELSE ParseMethods(
             IF lower(Head(method_entries)[1]) \notin HttpMethods THEN done
             ELSE AddEndpoint(done,
                      parse_endpoint(path_, upper(Head(method_entries)[1]),
                                     Head(method_entries)[2], done.value.components)),
             path_, Tail(method_entries))

\* "for path, path_data in paths.items()"
RECURSIVE ParsePaths(_, _)
ParsePaths(done, path_entries) ==
    IF done.exc # "" \/ path_entries = <<>> THEN done
    ELSE LET path_ == Head(path_entries)[1]
             path_data == Head(path_entries)[2]
             next == IF path_data.k # "dict" THEN Raises("AttributeError")
                     ELSE ParseMethods(done, path_, path_data.entries)
         IN ParsePaths(next, Tail(path_entries))

parse_openapi_schema(doc, base_url) ==
    IF doc.k # "dict" THEN Raises("AttributeError")
    ELSE LET info == Get(doc, "info", PyDict(<<>>))
             components == Get(doc, "components", PyDict(<<>>))
             paths == Get(doc, "paths", PyDict(<<>>))
         IN IF info.k # "dict" \/ components.k # "dict" \/ paths.k # "dict"
            THEN Raises("AttributeError")
            ELSE ParsePaths(
                     Return(APISchema(Get(info, "title", PyStr("API")),
                                      Get(info, "version", PyStr("1.0.0")),
                                      base_url, components,
                                      Get(components, "securitySchemes", PyDict(<<>>)))),
                     paths.entries)

\* load_schema_from_file, from the decoded document on: the base URL is the
\* first server's, and any exception is logged and answered by None
\* schema_data.get("servers", [{}])[0].get("url", "https://api.example.com")
FirstServerUrl(servers) ==
    IF servers.exc # "" THEN servers
    ELSE IF servers.value.k # "list" THEN Raises("TypeError")
    ELSE IF servers.value.items = <<>> THEN Raises("IndexError")
    ELSE GetFrom(servers.value.items[1], "url", PyStr("https://api.example.com"))

ParseWithBase(doc, base_url) ==
    IF base_url.exc # "" THEN base_url ELSE parse_openapi_schema(doc, base_url.value)

\* except Exception: return None
NoneIfRaised(parsed) == IF parsed.exc # "" THEN None ELSE parsed.value

load_schema_from_file(doc) ==
    NoneIfRaised(
        ParseWithBase(doc,
            FirstServerUrl(GetFrom(doc, "servers", PyList(<<PyDict(<<>>)>>)))))

----------------------------------------------------------------------------
(* The documents the loader is run on *)

MaxOperations == 2  \* entries written into a document's paths section

RefTo(name) == PyDict(<< <<"$ref", PyStr("#/components/schemas/" \o name)>> >>)

\* User refers to Address from one of its properties
Components ==
    PyDict(<< <<"schemas",
        PyDict(<< <<"User",
                    PyDict(<< <<"type", PyStr("object")>>,
                              <<"required", PyList(<<PyStr("name")>>)>>,
                              <<"properties",
                                PyDict(<< <<"name", PyDict(<< <<"type", PyStr("string")>> >>)>>,
                                          <<"address", RefTo("Address")>> >>)>> >>)>>,
                  <<"Address",
                    PyDict(<< <<"type", PyStr("object")>>,
                              <<"properties",
                                PyDict(<< <<"zip", PyDict(<< <<"type", PyStr("string")>> >>)>> >>)>>
                           >>)>> >>)>> >>)

JsonBody(schema) ==
    PyDict(<< <<"requestBody",
        PyDict(<< <<"content",
            PyDict(<< <<"application/json", PyDict(<< <<"schema", schema>> >>)>> >>)>> >>)>> >>)

OpPlain == PyDict(<< <<"summary", PyStr("List users")>> >>)

OpParameters ==
    PyDict(<< <<"parameters",
        PyList(<<PyDict(<< <<"name", PyStr("X-Key")>>, <<"in", PyStr("header")>>,
                           <<"required", PyBool(TRUE)>>,
                           <<"schema", PyDict(<< <<"type", PyStr("string")>> >>)>> >>),
                 PyDict(<< <<"name", PyStr("page")>>, <<"in", PyStr("query")>>,
                           <<"schema", PyDict(<< <<"type", PyStr("integer")>>,
                                                 <<"default", PyInt(1)>> >>)>> >>)>>)>> >>)

\* the body is a reference to the component User
OpRefBody == JsonBody(RefTo("User"))

\* the body is written in place and refers to Address from a property
OpInlineBody ==
    JsonBody(PyDict(<< <<"type", PyStr("object")>>,
                       <<"properties", PyDict(<< <<"home", RefTo("Address")>> >>)>> >>))

\* malformed: the operation is not a map
OpNotMap == PyStr("oops")

\* malformed: a parameter entry is not a map
OpBadParameter == PyDict(<< <<"parameters", PyList(<<PyStr("page")>>)>> >>)

Operations == {OpPlain, OpParameters, OpRefBody, OpInlineBody, OpNotMap, OpBadParameter}

DocumentPaths == {"/users", "/users/{id}"}

\* what is written into the paths section: an operation under a method key, a
\* path-level summary, or a path entry that is not a map
PathEdits ==
    [kind : {"operation"}, path : DocumentPaths, key : {"get", "POST"}, value : Operations]
        \cup [kind : {"summary"}, path : DocumentPaths, key : {"summary"},
              value : {PyStr("Users")}]
        \cup [kind : {"notmap"}, path : DocumentPaths, key : {""}, value : {PyStr("oops")}]

WritePath(paths, e) ==
    IF e.kind = "notmap" THEN SetItem(paths, e.path, e.value)
    ELSE LET current == IF Has(paths, e.path) /\ Item(paths, e.path).k = "dict"
                        THEN Item(paths, e.path) ELSE PyDict(<<>>)
         IN SetItem(paths, e.path, SetItem(current, e.key, e.value))

RECURSIVE WritePaths(_, _)
WritePaths(paths, edits) ==
    IF edits = <<>> THEN paths ELSE WritePaths(WritePath(paths, Head(edits)), Tail(edits))

Document(edits) ==
    PyDict(<< <<"openapi", PyStr("3.0.0")>>,
              <<"info", PyDict(<< <<"title", PyStr("User API")>>,
                                  <<"version", PyStr("2.0.0")>> >>)>>,
              <<"servers", PyList(<<PyDict(<< <<"url", PyStr("https://api.test")>> >>)>>)>>,
              <<"components", Components>>,
              <<"paths", WritePaths(PyDict(<<>>), edits)>> >>)

\* the info sections of the documents that have no paths section
Infos ==
    {PyDict(entries) :
        entries \in {<<>>,
                     << <<"title", PyStr("User API")>> >>,
                     << <<"version", PyStr("2.0.0")>> >>,
                     << <<"version", PyStr("2.0.0")>>, <<"title", PyStr("User API")>> >>}}

\* documents without a paths key, with and without an info section
PathlessDocuments ==
    {PyDict(<< <<"openapi", PyStr("3.0.0")>> >>)}
        \cup {PyDict(<< <<"openapi", PyStr("3.0.0")>>, <<"info", info>> >>) : info \in Infos}
        \cup {PyDict(<< <<"info", info>>, <<"components", Components>> >>) : info \in Infos}

NoValidator ==
    /\ endpoint = None /\ headers = None /\ query_params = None /\ body = None
    /\ method = None /\ path = None /\ result = None /\ hash_order = 0

InitLoad ==
    /\ pc = "ready"
    /\ schema_data \in {Document(edits) : edits \in SeqsUpTo(PathEdits, MaxOperations)}
                        \cup PathlessDocuments
    /\ api_schema = None
    /\ NoValidator
    /\ NoPrompter
    /\ NoStorage

\* the document of a schema file is parsed
LoadSchemaFromFile ==
    /\ pc = "ready"
    /\ api_schema' = load_schema_from_file(schema_data)
    /\ pc' = IF api_schema' = None THEN "failed" ELSE "loaded"
    /\ UNCHANGED <<files, calls,
                   endpoint, headers, query_params, body, method, path, result, schema_data,
                   hash_order, answers, frames, prompted>>

NextLoad == LoadSchemaFromFile

SpecLoad == InitLoad /\ [][NextLoad]_vars

----------------------------------------------------------------------------
(* Properties of the loader *)

\* does a schema, or a property or item schema below it, carry a $ref marker
RECURSIVE HasRef(_)
HasRef(schema) ==
    /\ schema.k = "dict"
    /\ \/ Has(schema, "$ref")
       \/ /\ Has(schema, "properties")
          /\ Item(schema, "properties").k = "dict"
          /\ \E i \in 1..Len(Item(schema, "properties").entries) :
                HasRef(Item(schema, "properties").entries[i][2])
       \/ Has(schema, "items") /\ HasRef(Item(schema, "items"))

\* C4: the body schema an endpoint stores has every $ref replaced, also the
\* $ref in a property of the component the body schema referred to: no property
\* the validator reaches carries a $ref marker.
C4_RefsResolved ==
    pc = "loaded" =>
        \A i \in 1..Len(api_schema.endpoints) : ~HasRef(api_schema.endpoints[i].body_schema)

\* an operation whose shape is the one the loader reads
WellFormed(operation) ==
    /\ operation.k = "dict"
    /\ LET parameters == Get(operation, "parameters", PyList(<<>>))
       IN /\ parameters.k = "list"
          /\ \A i \in 1..Len(parameters.items) : parameters.items[i].k = "dict"

\* the <<method, path>> of the well-formed operations of the document
WellFormedOperations ==
    LET paths == Get(schema_data, "paths", PyDict(<<>>))
    IN {<<upper(paths.entries[i][2].entries[j][1]), paths.entries[i][1]>> :
           <<i, j>> \in {<<i, j>> \in (1..Len(paths.entries)) \X (1..3) :
                            /\ paths.entries[i][2].k = "dict"
                            /\ j <= Len(paths.entries[i][2].entries)
                            /\ lower(paths.entries[i][2].entries[j][1]) \in HttpMethods
                            /\ WellFormed(paths.entries[i][2].entries[j][2])}}

LoadedEndpoints ==
    IF api_schema = None THEN {}
    ELSE {<<api_schema.endpoints[i].method, api_schema.endpoints[i].path>> :
             i \in 1..Len(api_schema.endpoints)}

\* C10: loading a document with a malformed operation does not fail the load:
\* the malformed operation is skipped and every well-formed operation of the
\* document is an endpoint of the schema returned.
C10_MalformedSkipped ==
    pc \in {"loaded", "failed"} => WellFormedOperations \subseteq LoadedEndpoints

\* the info section of the document, an empty map when it has none
DocumentInfo == Get(schema_data, "info", PyDict(<<>>))

\* C11: for a document without a paths key the loader returns a schema with no
\* endpoints whose title and version are the document's info.title and
\* info.version where present, and "API" and "1.0.0" where absent.
C11_NoPaths ==
    (pc \in {"loaded", "failed"} /\ ~Has(schema_data, "paths")) =>
        /\ pc = "loaded"
        /\ api_schema.endpoints = <<>>
        /\ api_schema.title =
              IF Has(DocumentInfo, "title") THEN Item(DocumentInfo, "title") ELSE PyStr("API")
        /\ api_schema.version =
              IF Has(DocumentInfo, "version") THEN Item(DocumentInfo, "version")
              ELSE PyStr("1.0.0")

\* a document with a title and no version, and no paths, is loaded
C11_Witness ==
    /\ pc = "loaded"
    /\ ~Has(schema_data, "paths")
    /\ Has(DocumentInfo, "title") /\ ~Has(DocumentInfo, "version")
    /\ api_schema.title = PyStr("User API")
    /\ api_schema.version = PyStr("1.0.0")
    /\ api_schema.endpoints = <<>>

----------------------------------------------------------------------------
(* field_prompter.py: the body prompter *)

\* the characters of property names in code point order: Python compares
\* strings character by character by code point
Ascii == "-./0123456789ABCDEFGHIJKLMNOPQRSTUVWXYZ_abcdefghijklmnopqrstuvwxyz{}"

Ord(c) == CHOOSE i \in 1..Len(Ascii) : CharAt(Ascii, i) = c

\* a < b on strings
RECURSIVE StrLess(_, _)
StrLess(a, b) ==
    IF b = "" THEN FALSE
    ELSE IF a = "" THEN TRUE
    ELSE IF CharAt(a, 1) = CharAt(b, 1)
    THEN StrLess(SubSeq(a, 2, Len(a)), SubSeq(b, 2, Len(b)))
    ELSE Ord(CharAt(a, 1)) < Ord(CharAt(b, 1))

\* name in required_fields, for the set SetOf built
InSet(name, required_fields) ==
    \E i \in 1..Len(required_fields) : required_fields[i] = PyStr(name)

\* the sort key (x[0] not in required_fields, x[0]) of a is less than that of b
KeyLess(a, b, required_fields) ==
    LET optional_a == ~InSet(a[1], required_fields)
        optional_b == ~InSet(b[1], required_fields)
    IN IF optional_a # optional_b THEN optional_b ELSE StrLess(a[1], b[1])

\* sorted(properties.items(), key=...): a stable sort
RECURSIVE sorted(_, _)
sorted(entries, required_fields) ==
    IF entries = <<>> THEN <<>>
    ELSE LET front == sorted(SubSeq(entries, 1, Len(entries) - 1), required_fields)
             last == entries[Len(entries)]
             before == Cardinality({i \in 1..Len(front) :
                                      ~KeyLess(last, front[i], required_fields)})
         IN SubSeq(front, 1, before) \o <<last>> \o SubSeq(front, before + 1, Len(front))

\* the prompt message _prompt_for_object builds for a property
PromptMessage(indent, prop_name, required, prop_schema) ==
    LET description == Get(prop_schema, "description", PyStr(""))
        example == Get(prop_schema, "example", None)
    IN indent \o prop_name
         \o (IF required THEN " (required)" ELSE "")
         \o (IF Truthy(description) THEN " - " \o str(description) ELSE "")
         \o (IF Truthy(example) THEN " [example: " \o str(example) \o "]" ELSE "")

\* the texts a collector types into a text prompt
Texts == {"", " ", "ab", "abc", "5", "-3", "2.5"}

\* x.lstrip("-").isdigit()
IsInteger(x) == IsDigits(lstrip(x, "-"))

\* int(x) for a text of digits with at most one leading "-"
int(x) ==
    IF CharAt(x, 1) = "-" THEN 0 - ParseNat(SubSeq(x, 2, Len(x))) ELSE ParseNat(x)

\* the parts of a decimal text: sign, whole digits, fraction digits
Unsigned(x) ==
    IF x # "" /\ CharAt(x, 1) \in {"-", "+"} THEN SubSeq(x, 2, Len(x)) ELSE x

\* _is_float(x), on texts written as an optional sign, digits and an optional
\* fraction of digits
is_float(x) ==
    LET parts == split(Unsigned(x), ".")
    IN /\ Len(parts) \in {1, 2}
       /\ IsDigits(parts[1])
       /\ Len(parts) = 2 => IsDigits(parts[2])

\* float(x) for such a text whose fraction is absent, zero or one half
float(x) ==
    LET parts == split(Unsigned(x), ".")
        half == IF Len(parts) = 2 /\ CharAt(parts[2], 1) = "5" THEN 1 ELSE 0
        twice == 2 * ParseNat(parts[1]) + half
    IN PyFloat(IF CharAt(x, 1) = "-" THEN 0 - twice ELSE twice)

\* what one question of _prompt_for_property comes to: the collector's answer
\* and either the value returned or the nested prompt entered
Answered(answer_, value_) == [answer |-> answer_, value |-> value_, enter |-> ""]
Entered(answer_, fn_) == [answer |-> answer_, value |-> None, enter |-> fn_]

\* _prompt_for_property: one outcome for each answer the prompt accepts.  A
\* select offers the enum values (and skip unless required), a confirm is
\* answered yes or no, a text prompt re-asks until its validate function
\* accepts the text.
prompt_for_property(prop_schema, prop_name, prompt_msg, required, default) ==
    LET prop_type == Get(prop_schema, "type", PyStr("string"))
        enum_values == Get(prop_schema, "enum", None)
    IN IF Truthy(enum_values)
       THEN {Answered(v, v) :
               v \in {IterItems(enum_values)[i] : i \in 1..Len(IterItems(enum_values))}
                       \cup (IF required THEN {} ELSE {None})}
       ELSE IF prop_type = PyStr("boolean")
       THEN {Answered(PyBool(b), PyBool(b)) : b \in BOOLEAN}
       ELSE IF prop_type = PyStr("integer")
       THEN {Answered(PyStr(x), IF x # "" /\ IsInteger(x) THEN PyInt(int(x)) ELSE None) :
               x \in {t \in Texts : (~required /\ t = "") \/ IsInteger(t)}}
       ELSE IF prop_type = PyStr("number")
       THEN {Answered(PyStr(x), IF x # "" /\ is_float(x) THEN float(x) ELSE None) :
               x \in {t \in Texts : (~required /\ t = "") \/ is_float(t)}}
       ELSE IF prop_type = PyStr("object")
       THEN {Entered(PyBool(TRUE), "object"), Answered(PyBool(FALSE), None)}
       ELSE IF prop_type = PyStr("array")
       THEN {Entered(PyBool(TRUE), "array"), Answered(PyBool(FALSE), None)}
       ELSE {Answered(PyStr(x), PyStr(x)) :
               x \in {t \in Texts : required => Len(strip(t, " ")) > 0}}

\* a call of _prompt_for_object or _prompt_for_array in progress: the schema
\* and indent it was called with, the sorted properties still to prompt for
\* (todo: the first one is being prompted for), the set of required names,
\* the obj or items built so far, whether the array loop has hit a break and
\* how many times it has been handed None for an item it still needs
Frame(fn_, schema_, indent_, todo_, required_fields_, value_) ==
    [fn |-> fn_, schema |-> schema_, indent |-> indent_, todo |-> todo_,
     required_fields |-> required_fields_, value |-> value_, done |-> FALSE,
     declined |-> 0]

\* _prompt_for_object up to its first question: set(...) of a value that is
\* not iterable raises; no properties means the free-form JSON prompt
prompt_for_object(schema, indent) ==
    LET properties == Get(schema, "properties", PyDict(<<>>))
        required_fields == SetOf(Get(schema, "required", PyList(<<>>)))
    IN IF ~required_fields.ok THEN Raises("TypeError")
       ELSE IF ~Truthy(properties)
       THEN Return(Frame("json", schema, indent, <<>>, required_fields.items, PyDict(<<>>)))
       ELSE Return(Frame("object", schema, indent,
                         sorted(properties.entries, required_fields.items),
                         required_fields.items, PyDict(<<>>)))

\* the default of schema.get("maxItems", 10)
DefaultMaxItems == 10

\* _prompt_for_array up to its loop
prompt_for_array(schema, indent) ==
    Return(Frame("array", schema, indent, <<>>, <<>>, PyList(<<>>)))

\* a lower bound that ignores the schema's minItems
default_min_items(frame) == 0

min_items(frame) == Get(frame.schema, "minItems", PyInt(0)).n
max_items(frame) == Get(frame.schema, "maxItems", PyInt(DefaultMaxItems)).n

\* what a call in progress does with the value of the property or item it
\* prompted for: an object stores it unless it is None; an array appends it
\* unless it is None, and breaks on None once it holds min_items items
Receive(frame, v) ==
    IF frame.fn = "object"
    THEN [frame EXCEPT !.value = IF v # None THEN SetItem(@, Head(frame.todo)[1], v) ELSE @,
                       !.todo = Tail(@)]
    ELSE IF v # None
    THEN [frame EXCEPT !.value = PyList(Append(@.items, v))]
    ELSE IF Len(frame.value.items) >= min_items(frame)
    THEN [frame EXCEPT !.done = TRUE]
    ELSE [frame EXCEPT !.declined = @ + 1]

\* one entry of the transcript
Asked(msg_, required_, schema_, outcome) ==
    [msg |-> msg_, required |-> required_, schema |-> schema_,
     answer |-> outcome.answer, value |-> outcome.value, enter |-> outcome.enter]

Top == frames[Len(frames)]

\* the innermost call returns v to its caller
Deliver(v) ==
    LET rest == SubSeq(frames, 1, Len(frames) - 1)
    IN IF rest = <<>>
       THEN /\ frames' = <<>>
            /\ prompted' = v
            /\ pc' = "prompted"
       ELSE /\ frames' = [rest EXCEPT ![Len(rest)] = Receive(@, v)]
            /\ pc' = "prompting"
            /\ UNCHANGED prompted

\* a nested prompt is called from the calls in stack
Call(stack, called) ==
    IF called.exc # ""
    THEN /\ frames' = <<>>
         /\ prompted' = called
         /\ pc' = "raised"
    ELSE /\ frames' = Append(stack, called.value)
         /\ pc' = "prompting"
         /\ UNCHANGED prompted

\* the outcome of a property's question reaches the call that asked it
Take(outcome, prop_schema) ==
    IF outcome.enter = "object" THEN Call(frames, prompt_for_object(prop_schema, "    "))
    ELSE IF outcome.enter = "array" THEN Call(frames, prompt_for_array(prop_schema, "    "))
    ELSE /\ frames' = [frames EXCEPT ![Len(frames)] = Receive(@, outcome.value)]
         /\ pc' = "prompting"
         /\ UNCHANGED prompted

ValidatorIdle ==
    UNCHANGED <<files, calls,
                endpoint, headers, query_params, body, method, path, result, schema_data,
                api_schema, hash_order>>

\* the sort key (not x[1].get("required", False), x[0]) of a is less than that
\* of b
ParamKeyLess(a, b) ==
    LET optional_a == ~Truthy(Get(a[2], "required", PyBool(FALSE)))
        optional_b == ~Truthy(Get(b[2], "required", PyBool(FALSE)))
    IN IF optional_a # optional_b THEN optional_b ELSE StrLess(a[1], b[1])

\* the items left in the order the map holds them
insertion_order(entries) == entries

\* sorted(headers_schema.items(), key=...) and sorted(query_schema.items(),
\* key=...): a stable sort
RECURSIVE sorted_params(_)
sorted_params(entries) ==
    IF entries = <<>> THEN <<>>
    ELSE LET front == sorted_params(SubSeq(entries, 1, Len(entries) - 1))
             last == entries[Len(entries)]
             before == Cardinality({i \in 1..Len(front) : ~ParamKeyLess(last, front[i])})
         IN SubSeq(front, 1, before) \o <<last>> \o SubSeq(front, before + 1, Len(front))

\* the texts a collector types into a header or query-parameter prompt
ParamTexts == {"", "ab", "true"}

\* the choices of the select prompt: str(val) for every enum value, and the
\* skip choice (None) when the field is optional
Choices(enum_values, required) ==
    {PyStr(str(enum_values.items[i])) : i \in 1..Len(enum_values.items)}
        \cup (IF Truthy(required) THEN {} ELSE {None})

\* what the header prompt can return for one header
HeaderAnswers(header_def) ==
    IF Truthy(Get(header_def, "enum", None))
    THEN Choices(Item(header_def, "enum"), Get(header_def, "required", PyBool(FALSE)))
    ELSE {PyStr(x) : x \in {t \in ParamTexts :
                              Truthy(Get(header_def, "required", PyBool(FALSE)))
                                  => Len(strip(t, " ")) > 0}}

\* the question about one field and its answer
AskedParam(name, def, value) ==
    Asked(PromptMessage("  ", name, Truthy(Get(def, "required", PyBool(FALSE))), def),
          Truthy(Get(def, "required", PyBool(FALSE))), def, Answered(value, value))

\* the loop of prompt_for_headers over sorted_headers, every way it can go: the
\* questions asked and the headers collected
RECURSIVE HeaderRuns(_, _, _)
HeaderRuns(todo, asked, collected) ==
    IF todo = <<>> THEN {[asked |-> asked, value |-> collected]}
    ELSE UNION {HeaderRuns(Tail(todo),
                           Append(asked, AskedParam(Head(todo)[1], Head(todo)[2], value)),
                           IF value # None /\ value # PyStr("")
                           THEN SetItem(collected, Head(todo)[1], value)
                           ELSE collected) :
                   value \in HeaderAnswers(Head(todo)[2])}

prompt_for_headers(headers_schema) ==
    IF ~Truthy(headers_schema) THEN {[asked |-> <<>>, value |-> PyDict(<<>>)]}
    ELSE HeaderRuns(sorted_params(headers_schema.entries), <<>>, PyDict(<<>>))

\* the validator prompt_for_query_params hands to the text question
query_validate(required, param_type, x) ==
    IF Truthy(required) THEN Len(strip(x, " ")) > 0
    ELSE IF param_type = PyStr("integer") THEN x = "" \/ IsInteger(x)
    ELSE IF param_type = PyStr("number") THEN x = "" \/ is_float(x)
    ELSE IF param_type = PyStr("boolean")
    THEN x = "" \/ lower(x) \in {"true", "false", "1", "0"}
    ELSE TRUE

\* params[param_name] for an answer that is neither None nor empty
query_value(param_type, value) ==
    IF param_type = PyStr("integer") /\ IsInteger(value) THEN PyStr(IntStr(int(value)))
    ELSE IF param_type = PyStr("number") /\ is_float(value)
    THEN PyStr(FloatStr(float(value).twice))
    ELSE IF param_type = PyStr("boolean")
    THEN PyStr(IF lower(value) \in {"true", "1"} THEN "true" ELSE "false")
    ELSE PyStr(value)

\* what the query-parameter prompt can return for one parameter
QueryAnswers(param_def) ==
    IF Truthy(Get(param_def, "enum", None))
    THEN Choices(Item(param_def, "enum"), Get(param_def, "required", PyBool(FALSE)))
    ELSE {PyStr(x) : x \in {t \in ParamTexts :
                              query_validate(Get(param_def, "required", PyBool(FALSE)),
                                             Get(param_def, "type", PyStr("string")), t)}}

\* the loop of prompt_for_query_params over sorted_params, every way it can go
RECURSIVE QueryRuns(_, _, _)
QueryRuns(todo, asked, collected) ==
    IF todo = <<>> THEN {[asked |-> asked, value |-> collected]}
    ELSE UNION {QueryRuns(Tail(todo),
                          Append(asked, AskedParam(Head(todo)[1], Head(todo)[2], value)),
                          IF value # None /\ value # PyStr("")
                          THEN SetItem(collected, Head(todo)[1],
                                       query_value(Get(Head(todo)[2], "type", PyStr("string")),
                                                   value.s))
                          ELSE collected) :
                   value \in QueryAnswers(Head(todo)[2])}

prompt_for_query_params(query_schema) ==
    IF ~Truthy(query_schema) THEN {[asked |-> <<>>, value |-> PyDict(<<>>)]}
    ELSE QueryRuns(sorted_params(query_schema.entries), <<>>, PyDict(<<>>))

\* headers.update(schema_headers), params.update(schema_params)
RECURSIVE update(_, _)
update(d, entries) ==
    IF entries = <<>> THEN d
    ELSE update(SetItem(d, Head(entries)[1], Head(entries)[2]), Tail(entries))

\* "Headers": the endpoint's headers are prompted for and merged into the
\* request's
PromptForHeaders ==
    /\ pc = "start"
    /\ \E run \in prompt_for_headers(endpoint.headers) :
          /\ answers' = answers \o run.asked
          /\ headers' = update(headers, run.value.entries)
    /\ pc' = "headers"
    /\ UNCHANGED <<files, calls,
                   endpoint, query_params, body, method, path, result, schema_data,
                   api_schema, hash_order, frames, prompted>>

\* "Query parameters"
PromptForQueryParams ==
    /\ pc = "headers"
    /\ \E run \in prompt_for_query_params(endpoint.query_params) :
          /\ answers' = answers \o run.asked
          /\ query_params' = update(query_params, run.value.entries)
    /\ pc' = "query"
    /\ UNCHANGED <<files, calls,
                   endpoint, headers, body, method, path, result, schema_data,
                   api_schema, hash_order, frames, prompted>>

\* prompt_for_body, up to the first question of the prompt it dispatches to
PromptForBody ==
    /\ pc = "query"
    /\ LET body_schema == endpoint.body_schema
           schema_type == Get(body_schema, "type", PyStr("object"))
       IN IF ~Truthy(body_schema)
          THEN /\ frames' = <<>> /\ prompted' = None /\ pc' = "prompted"
               /\ UNCHANGED answers
          ELSE IF schema_type = PyStr("object")
          THEN Call(<<>>, prompt_for_object(body_schema, "  ")) /\ UNCHANGED answers
          ELSE IF schema_type = PyStr("array")
          THEN Call(<<>>, prompt_for_array(body_schema, "  ")) /\ UNCHANGED answers
          ELSE \E outcome \in prompt_for_property(body_schema, "body", "  body", TRUE,
                                                  Get(body_schema, "default", None)) :
                  /\ answers' = Append(answers, Asked("  body", TRUE, body_schema, outcome))
                  /\ frames' = <<>>
                  /\ prompted' = outcome.value
                  /\ pc' = "prompted"
    /\ ValidatorIdle

\* one pass of the loop over sorted_props in _prompt_for_object
PromptProperty ==
    /\ pc = "prompting" /\ frames # <<>>
    /\ Top.fn = "object" /\ Top.todo # <<>>
    /\ LET prop_name == Head(Top.todo)[1]
           prop_schema == Head(Top.todo)[2]
           required == InSet(prop_name, Top.required_fields)
           prompt_msg == PromptMessage(Top.indent, prop_name, required, prop_schema)
       IN \E outcome \in prompt_for_property(prop_schema, prop_name, prompt_msg, required,
                                             Get(prop_schema, "default", None)) :
             /\ answers' = Append(answers, Asked(prompt_msg, required, prop_schema, outcome))
             /\ Take(outcome, prop_schema)
    /\ ValidatorIdle

\* _prompt_for_object returns obj after its last property
ReturnObject ==
    /\ pc = "prompting" /\ frames # <<>>
    /\ Top.fn = "object" /\ Top.todo = <<>>
    /\ Deliver(Top.value)
    /\ UNCHANGED answers
    /\ ValidatorIdle

\* what the collector types into the free-form JSON prompt
JsonTexts == {"", "{}", "5", "{oops"}

\* the free-form branch of _prompt_for_object
PromptJSON ==
    /\ pc = "prompting" /\ frames # <<>>
    /\ Top.fn = "json"
    /\ \E json_text \in JsonTexts :
          LET msg == Top.indent \o "JSON:"
              value == IF json_text # "" /\ json_loads(json_text).ok
                       THEN json_loads(json_text).value
                       ELSE PyDict(<<>>)
          IN /\ answers' = Append(answers,
                   Asked(msg, FALSE, Top.schema, Answered(PyStr(json_text), value)))
             /\ Deliver(value)
    /\ ValidatorIdle

MaxDeclines == 2   \* times a collector declines items an array still needs

\* the outcome hands the loop an item
Supplies(outcome) == outcome.enter # "" \/ outcome.value # None

\* one pass of the while loop of _prompt_for_array; a collector declines an
\* item the array still needs MaxDeclines times at most
PromptItem ==
    /\ pc = "prompting" /\ frames # <<>>
    /\ Top.fn = "array" /\ ~Top.done
    /\ Len(Top.value.items) < max_items(Top)
    /\ LET n == Len(Top.value.items)
           items_schema == Get(Top.schema, "items", PyDict(<<>>))
           confirm_msg == Top.indent \o "Add item #" \o NatStr(n + 1) \o "?"
           item_msg == Top.indent \o "  Item #" \o NatStr(n + 1)
           confirmed(add) ==
               IF n >= min_items(Top)
               THEN Append(answers, Asked(confirm_msg, FALSE, Top.schema,
                                           Answered(PyBool(add), None)))
               ELSE answers
       IN \E add \in (IF n >= min_items(Top) THEN BOOLEAN ELSE {TRUE}) :
             IF ~add
             THEN /\ answers' = confirmed(add)
                  /\ frames' = [frames EXCEPT ![Len(frames)].done = TRUE]
                  /\ UNCHANGED <<pc, prompted>>
             ELSE \E outcome \in prompt_for_property(items_schema, "item_" \o NatStr(n),
                                                     item_msg, n < min_items(Top), None) :
                     /\ Supplies(outcome) \/ n >= min_items(Top)
                           \/ Top.declined < MaxDeclines
                     /\ answers' = Append(confirmed(add),
                           Asked(item_msg, n < min_items(Top), items_schema, outcome))
                     /\ Take(outcome, items_schema)
    /\ ValidatorIdle

\* _prompt_for_array returns items when its loop ends
ReturnArray ==
    /\ pc = "prompting" /\ frames # <<>>
    /\ Top.fn = "array"
    /\ Top.done \/ Len(Top.value.items) >= max_items(Top)
    /\ Deliver(Top.value)
    /\ UNCHANGED answers
    /\ ValidatorIdle

\* the caller (interactive.py) keeps a body the prompter returned only if it
\* is truthy, marks it as JSON, and hands the request to the validator
AssembleRequest ==
    /\ pc = "prompted"
    /\ body' = IF Truthy(prompted) THEN prompted ELSE None
    /\ headers' = IF Truthy(prompted)
                  THEN SetItem(headers, "Content-Type", PyStr("application/json"))
                  ELSE headers
    /\ method' = PyStr(endpoint.method)
    /\ path' = PyStr(endpoint.path)
    /\ pc' = "ready"
    /\ UNCHANGED <<files, calls,
                   endpoint, query_params, result, schema_data, api_schema, hash_order,
                   answers, frames, prompted>>

----------------------------------------------------------------------------
(* The body schemas the prompter is run on *)

Schema(type_) == PyDict(<< <<"type", PyStr(type_)>> >>)

ObjectSchema(required_, properties_) ==
    PyDict(<< <<"type", PyStr("object")>>,
              <<"required", required_>>,
              <<"properties", PyDict(properties_)>> >>)

\* a required name and an optional nickname, both with a minimum length
AccountSchema ==
    ObjectSchema(PyList(<<PyStr("name")>>),
                 << <<"nick", SetItem(Schema("string"), "minLength", PyInt(1))>>,
                    <<"name", SetItem(Schema("string"), "minLength", PyInt(2))>> >>)

\* a required integer, an optional choice and an optional flag
MemberSchema ==
    ObjectSchema(PyList(<<PyStr("age")>>),
                 << <<"role", SetItem(Schema("string"), "enum",
                                      PyList(<<PyStr("admin"), PyStr("user")>>))>>,
                    <<"active", Schema("boolean")>>,
                    <<"age", SetItem(Schema("integer"), "minimum", PyInt(0))>> >>)

\* a required nested object and an optional array
OrderSchema ==
    ObjectSchema(PyList(<<PyStr("owner")>>),
                 << <<"tags", SetItem(SetItem(Schema("array"), "items", Schema("string")),
                                      "maxItems", PyInt(1))>>,
                    <<"owner", ObjectSchema(PyList(<<PyStr("id")>>),
                                            << <<"id", Schema("integer")>>,
                                               <<"note", Schema("string")>> >>)>> >>)

\* an optional number and an optional plain string
PriceSchema ==
    ObjectSchema(PyList(<<>>),
                 << <<"price", Schema("number")>>,
                    <<"label", Schema("string")>> >>)

\* a list of one or two integers
ScoresSchema ==
    SetItem(SetItem(SetItem(Schema("array"), "items", Schema("integer")),
                    "minItems", PyInt(1)), "maxItems", PyInt(2))

PromptSchemas ==
    {AccountSchema, MemberSchema, OrderSchema, PriceSchema, ScoresSchema,
     Schema("object"),                                      \* free-form
     Schema("string"),                                      \* a simple type
     ObjectSchema(PyBool(TRUE), << <<"name", Schema("string")>> >>),
     None}

MaxFields == 3   \* fields of a schema map that is prompted for

FieldNames == {"Zed", "id", "name"}

\* a required string, an optional boolean, and a boolean that does not say
\* whether it is required
FieldDefs ==
    {PyDict(<< <<"type", PyStr("string")>>, <<"required", PyBool(TRUE)>> >>),
     PyDict(<< <<"type", PyStr("boolean")>>, <<"required", PyBool(FALSE)>> >>),
     PyDict(<< <<"type", PyStr("boolean")>> >>)}

\* the schema maps with at least one field, in every insertion order
FieldMaps == EntriesOver(FieldNames, FieldDefs, MaxFields) \ {<<>>}

\* the names of the fields of a map that are required, in the map's order
RECURSIVE RequiredOf(_)
RequiredOf(entries) ==
    IF entries = <<>> THEN <<>>
    ELSE (IF Truthy(Get(Head(entries)[2], "required", PyBool(FALSE)))
          THEN <<PyStr(Head(entries)[1])>> ELSE <<>>) \o RequiredOf(Tail(entries))

\* the object schema that declares the fields of a map as its properties
ObjectOf(entries) ==
    PyDict(<< <<"type", PyStr("object")>>,
              <<"required", PyList(RequiredOf(entries))>>,
              <<"properties",
                PyDict([i \in 1..Len(entries) |->
                          <<entries[i][1],
                            PyDict(<< <<"type", Item(entries[i][2], "type")>> >>)>>])>> >>)

\* the endpoints that declare one schema map as their headers, their query
\* parameters or the properties of their body
FieldEndpoints ==
    UNION {{[SchemaEndpoint("POST", "/users") EXCEPT !.headers = PyDict(entries)],
            [SchemaEndpoint("POST", "/users") EXCEPT !.query_params = PyDict(entries)],
            [SchemaEndpoint("POST", "/users") EXCEPT !.body_schema = ObjectOf(entries)]} :
              entries \in FieldMaps}

InitPrompt ==
    /\ pc = "start"
    /\ \/ \E body_schema \in PromptSchemas :
             endpoint = [SchemaEndpoint("POST", "/users") EXCEPT !.body_schema = body_schema]
       \/ endpoint \in FieldEndpoints
    /\ headers = PyDict(<<>>) /\ query_params = PyDict(<<>>) /\ body = None
    /\ method = None /\ path = None /\ result = None
    /\ hash_order = 0
    /\ NoLoader
    /\ NoPrompter
    /\ NoStorage

NextPrompt ==
    \/ PromptForHeaders
    \/ PromptForQueryParams
    \/ PromptForBody
    \/ PromptProperty
    \/ ReturnObject
    \/ PromptJSON
    \/ PromptItem
    \/ ReturnArray
    \/ AssembleRequest
    \/ ValidateRequest

SpecPrompt == InitPrompt /\ [][NextPrompt]_vars

----------------------------------------------------------------------------
(* Properties of the prompter *)

\* the validator accepts v as a value of schema
Conformant(v, schema) ==
    /\ v # None
    /\ validate_field_value("value", v, schema).exc = ""
    /\ validate_field_value("value", v, schema).errors = <<>>

\* an optional question left empty: empty text, the skip choice, or declined
LeftEmpty(a) == a.enter = "" /\ a.answer \in {PyStr(""), None, PyBool(FALSE)}

\* every required question was filled with a conformant value (or its nested
\* prompt entered) and every optional question was left empty
FilledRequiredOnly ==
    \A i \in 1..Len(answers) :
        IF answers[i].required
        THEN answers[i].enter # "" \/ Conformant(answers[i].value, answers[i].schema)
        ELSE LeftEmpty(answers[i])

ObjectBodySchema ==
    /\ endpoint.body_schema # None
    /\ Get(endpoint.body_schema, "type", PyStr("object")) = PyStr("object")

\* C3: for an object body schema, the body the prompter assembles when every
\* required field is filled with a schema-conformant value and every optional
\* field is left empty passes validation against the same schema
C3_RoundTrip ==
    (pc = "returned" /\ ObjectBodySchema /\ answers # <<>> /\ FilledRequiredOnly)
        => result.is_valid

-----------------------------------------------------------------------------
(* The validation of what the query-parameter prompt stores *)

\* the answers a text question can be given
QueryTexts == Texts \cup {"true", "False", "1", "0"}

\* a value is what the prompt stores for an optional parameter of this kind
OnTheWire(param_type, value) ==
    \E x \in QueryTexts :
        /\ x # ""
        /\ query_validate(PyBool(FALSE), param_type, x)
        /\ value = query_value(param_type, x)

TypedKinds == {PyStr("boolean"), PyStr("integer"), PyStr("number")}

\* the typed parameters of a schema map that a request supplies in wire form
WireSupplied(schema_map, supplied) ==
    {i \in 1..Len(schema_map.entries) :
        /\ Get(schema_map.entries[i][2], "type", PyStr("string")) \in TypedKinds
        /\ supplied # None
        /\ Has(supplied, schema_map.entries[i][1])
        /\ OnTheWire(Item(schema_map.entries[i][2], "type"),
                     Item(supplied, schema_map.entries[i][1]))}

\* C12: a header or query parameter declared boolean, integer or number and
\* supplied as the string the prompt stores for it gets no error, and a request
\* that consists of such a parameter alone is reported valid.
C12_WireFormAccepted ==
    (Returned /\ endpoint.body_schema = None /\ path = None) =>
        /\ \A i \in WireSupplied(endpoint.headers, headers) :
              ErrorsAt(result, "headers." \o endpoint.headers.entries[i][1]) = {}
        /\ \A i \in WireSupplied(endpoint.query_params, query_params) :
              ErrorsAt(result, "query." \o endpoint.query_params.entries[i][1]) = {}
        /\ (method = PyStr("POST") /\ headers = None
               /\ query_params = PyDict(<< <<"validate", PyStr("true")>> >>)
               /\ endpoint.query_params
                     = PyDict(<< <<"validate", PyDict(<< <<"type", PyStr("boolean")>>,
                                                          <<"default", PyBool(FALSE)>> >>)>> >>))
              => result.is_valid

-----------------------------------------------------------------------------
(* The validation of one body field *)

\* the schema and the value of the body's one field f
FieldSchema == Item(Item(endpoint.body_schema, "properties"), "f")
FieldValue == Item(body, "f")

OneField ==
    /\ Returned
    /\ endpoint.body_schema # None
    /\ Get(endpoint.body_schema, "properties", None)
          \in {PyDict(<< <<"f", schema>> >>) : schema \in FieldSchemas}
    /\ body \in {PyDict(<< <<"f", value>> >>) : value \in FieldValues}

\* the enum of a string field that constrains its value by the enum alone, None
\* when it declares none
FieldEnum ==
    IF Get(FieldSchema, "type", None) = PyStr("string") /\ Len(FieldSchema.entries) = 2
    THEN Get(FieldSchema, "enum", None)
    ELSE None

IsMember(E, value) == \E i \in 1..Len(E.items) : E.items[i] = value

\* C13: for a string field with a non-empty enum, a string that is not listed
\* gets exactly one error on the field's path and a listed one gets none.
C13_Enum ==
    (OneField /\ FieldEnum # None /\ FieldEnum # PyList(<<>>) /\ FieldValue.k = "str") =>
        Cardinality(ErrorsAt(result, "body.f"))
            = IF IsMember(FieldEnum, FieldValue) THEN 0 ELSE 1

C13_Witness ==
    /\ OneField
    /\ FieldEnum = PyList(<<PyStr("x"), PyStr("y")>>)
    /\ FieldValue = PyStr("z")
    /\ Len(result.errors) = 1
    /\ result.errors[1].field = "body.f"
    /\ result.errors[1].message = "Value must be one of ['x', 'y'], got z"

C13_WitnessMember ==
    /\ OneField
    /\ FieldEnum = PyList(<<PyStr("x"), PyStr("y")>>)
    /\ FieldValue = PyStr("y")
    /\ result.errors = <<>>

\* the field is an array schema with both length bounds, lower at most upper,
\* and the value is a list whose items the item schema accepts
BoundedArray ==
    /\ OneField
    /\ Get(FieldSchema, "type", None) = PyStr("array")
    /\ Has(FieldSchema, "minItems") /\ Has(FieldSchema, "maxItems")
    /\ Item(FieldSchema, "minItems").n <= Item(FieldSchema, "maxItems").n
    /\ FieldValue.k = "list"
    /\ Has(FieldSchema, "items") => \A i \in 1..Len(FieldValue.items) : FieldValue.items[i].k = "int"

TooFew ==
    "Array must have at least " \o IntStr(Item(FieldSchema, "minItems").n) \o " items, got "
        \o IntStr(Len(FieldValue.items))

TooMany ==
    "Array must have at most " \o IntStr(Item(FieldSchema, "maxItems").n) \o " items, got "
        \o IntStr(Len(FieldValue.items))

\* C14: an array shorter than minItems gets exactly one error, the too-few one,
\* on the array's path; one longer than maxItems gets exactly one, the too-many
\* one; one whose length lies between the bounds gets none.
C14_ArrayLength ==
    BoundedArray =>
        LET n == Len(FieldValue.items)
            m == Item(FieldSchema, "minItems").n
            M == Item(FieldSchema, "maxItems").n
        IN /\ n < m => /\ Cardinality(ErrorsAt(result, "body.f")) = 1
                       /\ Cardinality(ErrorsWith(result, "body.f", TooFew)) = 1
                       /\ Len(result.errors) = 1
           /\ n > M => /\ Cardinality(ErrorsAt(result, "body.f")) = 1
                       /\ Cardinality(ErrorsWith(result, "body.f", TooMany)) = 1
                       /\ Len(result.errors) = 1
           /\ (m <= n /\ n <= M) => result.errors = <<>>

C14_Witness ==
    /\ BoundedArray
    /\ Item(FieldSchema, "minItems") = PyInt(2)
    /\ Item(FieldSchema, "maxItems") = PyInt(2)
    /\ FieldValue = PyList(<<PyInt(1)>>)
    /\ Len(result.errors) = 1
    /\ result.errors[1].field = "body.f"
    /\ result.errors[1].message = "Array must have at least 2 items, got 1"

C14_WitnessTooMany ==
    /\ BoundedArray
    /\ Item(FieldSchema, "maxItems") = PyInt(1)
    /\ Len(FieldValue.items) = 2
    /\ Len(result.errors) = 1
    /\ result.errors[1].message = "Array must have at most 1 items, got 2"

\* the declared kind of the field
FieldType == Get(FieldSchema, "type", PyStr("string"))

\* the type errors the report holds on the field
TypeErrors ==
    ErrorsWith(result, "body.f", "Expected " \o FieldType.s \o ", got " \o FieldValue.k)

\* C20: a boolean supplied for an integer or a number field, a float supplied
\* for an integer field, and a string supplied for a field of any other kind
\* each get a type error.
C20_KindsDistinct ==
    OneField =>
        /\ (FieldType \in {PyStr("integer"), PyStr("number")} /\ FieldValue.k = "bool")
              => TypeErrors # {}
        /\ (FieldType = PyStr("integer") /\ FieldValue.k = "float") => TypeErrors # {}
        /\ (FieldType # PyStr("string") /\ FieldValue.k = "str") => TypeErrors # {}

-----------------------------------------------------------------------------
(* The order in which the prompter asks for the fields of a schema map *)

\* the schema map the endpoint declares, as name and whether it is required
DeclaredFields ==
    IF Truthy(endpoint.headers)
    THEN {<<endpoint.headers.entries[i][1],
            Truthy(Get(endpoint.headers.entries[i][2], "required", PyBool(FALSE)))>> :
             i \in 1..Len(endpoint.headers.entries)}
    ELSE IF Truthy(endpoint.query_params)
    THEN {<<endpoint.query_params.entries[i][1],
            Truthy(Get(endpoint.query_params.entries[i][2], "required", PyBool(FALSE)))>> :
             i \in 1..Len(endpoint.query_params.entries)}
    ELSE LET properties == Item(endpoint.body_schema, "properties").entries
         IN {<<properties[i][1],
               IsMember(Item(endpoint.body_schema, "required"), PyStr(properties[i][1]))>> :
                i \in 1..Len(properties)}

\* the field a question was about: its message without indent and marker
VisitedName(a) ==
    IF endswith(a.msg, " (required)")
    THEN SubSeq(lstrip(a.msg, " "), 1, Len(lstrip(a.msg, " ")) - Len(" (required)"))
    ELSE lstrip(a.msg, " ")

Visited == [i \in 1..Len(answers) |-> <<VisitedName(answers[i]), answers[i].required>>]

\* the prompts for the endpoint's headers, query parameters and body are over
PromptingOver == pc \in {"prompted", "ready", "returned"}

\* C15: the fields of a schema map are asked for with every required field
\* before every optional one and, within each group, in ascending order of
\* name, whether the map is the headers, the query parameters or the properties
\* of the body; when the prompts are over, every field has been asked for once.
C15_VisitOrder ==
    endpoint \in FieldEndpoints =>
        /\ \A i \in 1..Len(Visited) : Visited[i] \in DeclaredFields
        /\ \A i \in 1..Len(Visited) : \A j \in 1..Len(Visited) :
              i < j => /\ Visited[i][2] \/ ~Visited[j][2]
                       /\ Visited[i][2] = Visited[j][2] => StrLess(Visited[i][1], Visited[j][1])
        /\ PromptingOver => Len(Visited) = Cardinality(DeclaredFields)

\* the map {id: optional, name: required, Zed: optional} in that order
NameRequired ==
    << <<"id", PyDict(<< <<"type", PyStr("boolean")>> >>)>>,
       <<"name", PyDict(<< <<"type", PyStr("string")>>, <<"required", PyBool(TRUE)>> >>)>>,
       <<"Zed", PyDict(<< <<"type", PyStr("boolean")>>, <<"required", PyBool(FALSE)>> >>)>> >>

C15_Witness ==
    /\ pc = "returned"
    /\ endpoint.headers = PyDict(NameRequired)
    /\ Visited = << <<"name", TRUE>>, <<"Zed", FALSE>>, <<"id", FALSE>> >>

C15_WitnessBody ==
    /\ pc = "returned"
    /\ endpoint.body_schema = ObjectOf(NameRequired)
    /\ Visited = << <<"name", TRUE>>, <<"Zed", FALSE>>, <<"id", FALSE>> >>

C15_WitnessQuery ==
    /\ pc = "returned"
    /\ endpoint.query_params = PyDict(NameRequired)
    /\ Visited = << <<"name", TRUE>>, <<"Zed", FALSE>>, <<"id", FALSE>> >>

-----------------------------------------------------------------------------
(* The storage manager: collections of saved requests.  A file is held as    *)
(* the document its text denotes (None while it does not exist)              *)

RequestData(method_, url_, headers_, params_, body_, json_data_) ==
    [method |-> method_, url |-> url_, headers |-> headers_, params |-> params_,
     body |-> body_, json_data |-> json_data_]

Collection(name_, requests_, description_) ==
    [name |-> name_, requests |-> requests_, description |-> description_]

\* request.model_dump(exclude_none=True): the fields that are not None
model_dump(request) ==
    PyDict(SelectSeq(<< <<"method", request.method>>, <<"url", request.url>>,
                        <<"headers", request.headers>>, <<"params", request.params>>,
                        <<"body", request.body>>, <<"json_data", request.json_data>> >>,
                     LAMBDA field : field[2] # None))

\* RequestData(**req_data): method and url must be there, the rest defaults
ParseRequestData(req_data) ==
    IF ~Has(req_data, "method") \/ ~Has(req_data, "url") THEN Raises("ValidationError")
    ELSE Return(RequestData(Item(req_data, "method"), Item(req_data, "url"),
                            Get(req_data, "headers", PyDict(<<>>)),
                            Get(req_data, "params", PyDict(<<>>)),
                            Get(req_data, "body", None),
                            Get(req_data, "json_data", None)))

\* the loop over coll_data.get("requests", {}).items()
RECURSIVE LoadRequests(_, _)
LoadRequests(entries, requests) ==
    IF entries = <<>> THEN Return(requests)
    ELSE IF ParseRequestData(Head(entries)[2]).exc # "" THEN Raises("ValidationError")
    ELSE LoadRequests(Tail(entries),
                      SetItem(requests, Head(entries)[1],
                              ParseRequestData(Head(entries)[2]).value))

\* collections[coll_name] = Collection(...)
StoreCollection(collections, coll_name, coll_data, requests) ==
    IF collections.exc # "" THEN collections
    ELSE IF requests.exc # "" THEN requests
    ELSE Return(SetItem(collections.value, coll_name,
                        Collection(PyStr(coll_name), requests.value,
                                   Get(coll_data, "description", None))))

\* the loop over data.get("collections", {}).items()
RECURSIVE LoadCollectionEntries(_, _)
LoadCollectionEntries(entries, collections) ==
    IF entries = <<>> \/ collections.exc # "" THEN collections
    ELSE LoadCollectionEntries(
             Tail(entries),
             StoreCollection(collections, Head(entries)[1], Head(entries)[2],
                             LoadRequests(Get(Head(entries)[2], "requests",
                                              PyDict(<<>>)).entries,
                                          PyDict(<<>>))))

\* the collections read, or {} when anything raised
EmptyIfRaised(collections) ==
    IF collections.exc # "" THEN PyDict(<<>>) ELSE collections.value

load_collections(collections_file) ==
    IF collections_file = None THEN PyDict(<<>>)
    ELSE EmptyIfRaised(
             LoadCollectionEntries(
                 Get(Or(collections_file, PyDict(<<>>)), "collections", PyDict(<<>>)).entries,
                 Return(PyDict(<<>>))))

\* data["collections"][coll_name] of _save_collections
CollectionData(collection) ==
    PyDict(<< <<"name", collection.name>>,
              <<"requests",
                PyDict([i \in 1..Len(collection.requests.entries) |->
                          <<collection.requests.entries[i][1],
                            model_dump(collection.requests.entries[i][2])>>])>> >>
           \o (IF Truthy(collection.description)
               THEN << <<"description", collection.description>> >> ELSE <<>>))

\* the document _save_collections writes
save_collections(collections) ==
    PyDict(<< <<"collections",
                PyDict([i \in 1..Len(collections.entries) |->
                          <<collections.entries[i][1],
                            CollectionData(collections.entries[i][2])>>])>> >>)

\* if collection not in collections: collections[collection] = Collection(name=collection)
AddCollection(collections, collection) ==
    IF Has(collections, collection) THEN collections
    ELSE SetItem(collections, collection, Collection(PyStr(collection), PyDict(<<>>), None))

\* a collection left with the new request alone
PutRequestAlone(collections, name, request_data, collection) ==
    SetItem(collections, collection,
            [Item(collections, collection) EXCEPT
                !.requests = PyDict(<< <<name, request_data>> >>)])

\* collections[collection].requests[name] = request_data
PutRequest(collections, name, request_data, collection) ==
    SetItem(collections, collection,
            [Item(collections, collection) EXCEPT !.requests = SetItem(@, name, request_data)])

\* save_request: the collections file it leaves
save_request(collections_file, name, request_data, collection) ==
    save_collections(PutRequest(AddCollection(load_collections(collections_file), collection),
                                name, request_data, collection))

\* load_request, on the collections it loaded
FindRequest(collections, name, collection) ==
    IF Has(collections, collection) /\ Has(Item(collections, collection).requests, name)
    THEN Item(Item(collections, collection).requests, name)
    ELSE None

load_request(collections_file, name, collection) ==
    FindRequest(load_collections(collections_file), name, collection)

\* _init_files: the files that do not exist are created
init_files(dir) ==
    [collections |-> IF dir.collections = None THEN PyDict(<< <<"collections", PyDict(<<>>)>> >>)
                     ELSE dir.collections,
     environments |->
        IF dir.environments = None
        THEN PyDict(<< <<"environments",
                         PyDict(<< <<"default",
                                     PyDict(<< <<"name", PyStr("default")>>,
                                               <<"variables", PyDict(<<>>)>> >>)>> >>)>> >>)
        ELSE dir.environments,
     history |-> IF dir.history = None THEN PyList(<<>>) ELSE dir.history]

-----------------------------------------------------------------------------
(* Requests saved to and loaded from a configuration directory *)

MaxCalls == 4   \* calls made on one configuration directory

RequestNames == {"get-user", "ping"}

CollectionNames == {"default", "team"}

\* requests with and without headers, a text body and a JSON body
Requests ==
    {RequestData(PyStr("GET"), PyStr("https://api.test/users"), PyDict(<<>>), PyDict(<<>>),
                 None, None),
     RequestData(PyStr("POST"), PyStr("https://api.test/users"),
                 PyDict(<< <<"Accept", PyStr("application/json")>> >>),
                 PyDict(<< <<"page", PyStr("1")>> >>), None,
                 PyDict(<< <<"name", PyStr("ab")>>, <<"nick", None>> >>)),
     RequestData(PyStr("PUT"), PyStr("https://api.test/users/1"), PyDict(<<>>), PyDict(<<>>),
                 PyStr(""), PyDict(<<>>))}

NoDirectory == [collections |-> None, environments |-> None, history |-> None]

OthersIdle ==
    UNCHANGED <<endpoint, headers, query_params, body, method, path, result, schema_data,
                api_schema, hash_order, answers, frames, prompted>>

InitStore ==
    /\ pc = "closed"
    /\ files = NoDirectory
    /\ calls = <<>>
    /\ NoValidator
    /\ NoLoader
    /\ NoPrompter

\* StorageManager(config_dir), for the first time or once more on the same
\* directory
NewStorageManager ==
    /\ Len(calls) < MaxCalls
    /\ files' = init_files(files)
    /\ calls' = Append(calls, [op |-> "StorageManager"])
    /\ pc' = "open"
    /\ OthersIdle

SaveRequest ==
    /\ pc = "open" /\ Len(calls) < MaxCalls
    /\ \E name \in RequestNames, request_data \in Requests, collection \in CollectionNames :
          /\ files' = [files EXCEPT
                          !.collections = save_request(@, name, request_data, collection)]
          /\ calls' = Append(calls, [op |-> "save_request", name |-> name,
                                     request_data |-> request_data,
                                     collection |-> collection])
    /\ UNCHANGED pc
    /\ OthersIdle

LoadRequest ==
    /\ pc = "open" /\ Len(calls) < MaxCalls
    /\ \E name \in RequestNames, collection \in CollectionNames :
          calls' = Append(calls, [op |-> "load_request", name |-> name,
                                  collection |-> collection,
                                  returned |-> load_request(files.collections, name,
                                                            collection)])
    /\ UNCHANGED <<pc, files>>
    /\ OthersIdle

NextStore == NewStorageManager \/ SaveRequest \/ LoadRequest

SpecStore == InitStore /\ [][NextStore]_vars

\* the saves of a name in a collection among the first n calls
SavesOf(name, collection, n) ==
    {i \in 1..n : /\ calls[i].op = "save_request"
                  /\ calls[i].name = name
                  /\ calls[i].collection = collection}

\* the request last saved under a name in a collection among the first n calls,
\* None when there is none
LastSaved(name, collection, n) ==
    IF SavesOf(name, collection, n) = {} THEN None
    ELSE calls[CHOOSE i \in SavesOf(name, collection, n) :
                   \A j \in SavesOf(name, collection, n) : j <= i].request_data

\* C16: whatever was last saved under a name in a collection is what
\* load_request returns for it, from any storage manager on the directory, and
\* it returns None for what was never saved: a save changes nothing but its own
\* entry.
C16_RoundTrip ==
    pc = "open" =>
        /\ \A name \in RequestNames, collection \in CollectionNames :
              load_request(files.collections, name, collection)
                  = LastSaved(name, collection, Len(calls))
        /\ \A n \in 1..Len(calls) :
              calls[n].op = "load_request" =>
                  calls[n].returned = LastSaved(calls[n].name, calls[n].collection, n - 1)

\* a request without a body is saved, which leaves no body in the file, and a
\* load of it returns it with its body None
C16_Witness ==
    /\ Len(calls) >= 3
    /\ calls[1].op = "StorageManager"
    /\ calls[2].op = "save_request"
    /\ calls[2].request_data.body = None
    /\ ~Has(Item(Item(Item(Item(files.collections, "collections"), calls[2].collection),
                      "requests"), calls[2].name), "body")
    /\ calls[3].op = "load_request"
    /\ calls[3].name = calls[2].name /\ calls[3].collection = calls[2].collection
    /\ calls[3].returned = calls[2].request_data

-----------------------------------------------------------------------------
(* The storage manager: the request history.  The history file is held as    *)
(* the list of its lines, each line as the JSON object its text denotes      *)

\* a datetime, as the second of its minute
datetime(second_) == [k |-> "datetime", second |-> second_]

HistoryEntry(timestamp_, method_, url_, status_code_, response_time_, success_) ==
    [timestamp |-> timestamp_, method |-> method_, url |-> url_,
     status_code |-> status_code_, response_time |-> response_time_, success |-> success_]

\* str(timestamp), which json.dumps(..., default=str) writes for a datetime
DatetimeStr(timestamp) ==
    "2024-01-01 09:30:" \o (IF timestamp.second < 10 THEN "0" ELSE "")
        \o NatStr(timestamp.second)

\* datetime.fromisoformat(text) for such a text
fromisoformat(text) == datetime(ParseNat(SubSeq(text, Len(text) - 1, Len(text))))

\* json.dumps(entry.model_dump(), default=str) + "\n"
HistoryLine(entry) ==
    PyDict(<< <<"timestamp", PyStr(DatetimeStr(entry.timestamp))>>,
              <<"method", entry.method>>, <<"url", entry.url>>,
              <<"status_code", entry.status_code>>,
              <<"response_time", entry.response_time>>,
              <<"success", entry.success>> >>)

\* add_to_history: the history file it leaves (nothing is written when the
\* file cannot be opened)
add_to_history(history_file, entry) ==
    IF history_file = None THEN None
    ELSE PyList(Append(history_file.items, HistoryLine(entry)))

\* lines[-limit:]
LastLines(lines, limit) ==
    LET start == IF 0 - limit < 0
                 THEN (IF Len(lines) - limit < 0 THEN 0 ELSE Len(lines) - limit)
                 ELSE (IF 0 - limit > Len(lines) THEN Len(lines) ELSE 0 - limit)
    IN SubSeq(lines, start + 1, Len(lines))

\* HistoryEntry(**data) after the timestamp text is parsed
ParseHistoryEntry(data) ==
    HistoryEntry(IF Item(data, "timestamp").k = "str"
                 THEN fromisoformat(Item(data, "timestamp").s)
                 ELSE Item(data, "timestamp"),
                 Item(data, "method"), Item(data, "url"), Get(data, "status_code", None),
                 Get(data, "response_time", None), Get(data, "success", PyBool(TRUE)))

load_history(history_file, limit) ==
    IF history_file = None THEN <<>>
    ELSE [i \in 1..Len(LastLines(history_file.items, limit)) |->
             ParseHistoryEntry(LastLines(history_file.items, limit)[i])]

-----------------------------------------------------------------------------
(* Entries added to and read from the history *)

Limits == {0, 1, 2, 50}

\* the entry of a request that was answered and of one that failed, made at
\* the time of the call
HistoryEntries(second) ==
    {HistoryEntry(datetime(second), PyStr("GET"), PyStr("https://api.test/users"),
                  PyInt(200), PyFloat(1), PyBool(TRUE)),
     HistoryEntry(datetime(second), PyStr("POST"), PyStr("https://api.test/users"),
                  None, PyFloat(3), PyBool(FALSE))}

AddToHistory ==
    /\ pc = "open" /\ Len(calls) < MaxCalls
    /\ \E entry \in HistoryEntries(Len(calls)) :
          /\ files' = [files EXCEPT !.history = add_to_history(@, entry)]
          /\ calls' = Append(calls, [op |-> "add_to_history", entry |-> entry])
    /\ UNCHANGED pc
    /\ OthersIdle

LoadHistory ==
    /\ pc = "open" /\ Len(calls) < MaxCalls
    /\ \E limit \in Limits :
          calls' = Append(calls, [op |-> "load_history", limit |-> limit,
                                  returned |-> load_history(files.history, limit)])
    /\ UNCHANGED <<pc, files>>
    /\ OthersIdle

NextHistory == NewStorageManager \/ AddToHistory \/ LoadHistory

SpecHistory == InitStore /\ [][NextHistory]_vars

\* the entries added among the first n calls, in the order they were added
RECURSIVE Added(_)
Added(n) ==
    IF n = 0 THEN <<>>
    ELSE Added(n - 1) \o (IF calls[n].op = "add_to_history" THEN <<calls[n].entry>> ELSE <<>>)

\* two entries agree on method, url, status code and success
SameEntry(a, b) ==
    /\ a.method = b.method /\ a.url = b.url
    /\ a.status_code = b.status_code /\ a.success = b.success

\* C18: load_history(limit) returns, for every limit that is not negative, the
\* min(limit, n) entries added last, in the order they were added.
C18_LastEntries ==
    \A n \in 1..Len(calls) :
        calls[n].op = "load_history" =>
            LET added == Added(n - 1)
                returned == calls[n].returned
                kept == IF calls[n].limit < Len(added) THEN calls[n].limit ELSE Len(added)
            IN /\ Len(returned) = kept
               /\ \A i \in 1..kept :
                     SameEntry(returned[i], added[Len(added) - kept + i])

-----------------------------------------------------------------------------
(* The storage manager: environments and the variables they resolve *)

Environment(name_, variables_) == [name |-> name_, variables |-> variables_]

\* the loop over data.get("environments", {}).items()
RECURSIVE LoadEnvironmentEntries(_, _)
LoadEnvironmentEntries(entries, environments) ==
    IF entries = <<>> THEN environments
    ELSE LoadEnvironmentEntries(
             Tail(entries),
             SetItem(environments, Head(entries)[1],
                     Environment(PyStr(Head(entries)[1]),
                                 Get(Head(entries)[2], "variables", PyDict(<<>>)))))

load_environments(environments_file) ==
    IF environments_file = None THEN PyDict(<<>>)
    ELSE LoadEnvironmentEntries(
             Get(Or(environments_file, PyDict(<<>>)), "environments", PyDict(<<>>)).entries,
             PyDict(<<>>))

\* the document _save_environments writes
save_environments(environments) ==
    PyDict(<< <<"environments",
                PyDict([i \in 1..Len(environments.entries) |->
                          <<environments.entries[i][1],
                            PyDict(<< <<"name", environments.entries[i][2].name>>,
                                      <<"variables",
                                        environments.entries[i][2].variables>> >>)>>])>> >>)

\* save_environment: the environments file it leaves
save_environment(environments_file, env) ==
    save_environments(SetItem(load_environments(environments_file), env.name.s, env))

load_environment(environments_file, name) ==
    Get(load_environments(environments_file), name, None)

\* s.replace(old, new) for a non-empty old
RECURSIVE replace(_, _, _)
replace(s, old, new) ==
    IF Len(s) < Len(old) THEN s
    ELSE IF SubSeq(s, 1, Len(old)) = old
    THEN new \o replace(SubSeq(s, Len(old) + 1, Len(s)), old, new)
    ELSE SubSeq(s, 1, 1) \o replace(SubSeq(s, 2, Len(s)), old, new)

\* the loop over env.variables.items()
RECURSIVE ReplaceVariables(_, _)
ReplaceVariables(resolved, variables) ==
    IF variables = <<>> THEN resolved
    ELSE ReplaceVariables(
             replace(resolved, "{{" \o Head(variables)[1] \o "}}", Head(variables)[2].s),
             Tail(variables))

ResolveIn(env, text) ==
    IF env = None THEN text ELSE ReplaceVariables(text, env.variables.entries)

resolve_variables(environments_file, text, environment) ==
    ResolveIn(load_environment(environments_file, environment), text)

-----------------------------------------------------------------------------
(* Environments saved and texts resolved in them *)

EnvironmentNames == {"default", "staging"}

\* no variable, one variable, two variables, and two variables of which one
\* names the other in its value, in either order
VariableMaps ==
    {PyDict(<<>>),
     PyDict(<< <<"HOST", PyStr("api.test")>> >>),
     PyDict(<< <<"HOST", PyStr("api.test")>>, <<"BASE", PyStr("/v1")>> >>),
     PyDict(<< <<"BASE", PyStr("{{HOST}}/v1")>>, <<"HOST", PyStr("api.test")>> >>),
     PyDict(<< <<"HOST", PyStr("api.test")>>, <<"BASE", PyStr("{{HOST}}/v1")>> >>)}

ResolvedTexts == {"{{HOST}}", "{{BASE}}/users", "{{HOST}}{{BASE}}{{HOST}}", "{{TOKEN}}", "users"}

SaveEnvironment ==
    /\ pc = "open" /\ Len(calls) < MaxCalls
    /\ \E name \in EnvironmentNames, variables \in VariableMaps :
          /\ files' = [files EXCEPT
                          !.environments =
                              save_environment(@, Environment(PyStr(name), variables))]
          /\ calls' = Append(calls, [op |-> "save_environment", name |-> name,
                                     variables |-> variables])
    /\ UNCHANGED pc
    /\ OthersIdle

ResolveVariables ==
    /\ pc = "open" /\ Len(calls) < MaxCalls
    /\ \E text \in ResolvedTexts, environment \in EnvironmentNames \cup {"missing"} :
          calls' = Append(calls, [op |-> "resolve_variables", text |-> text,
                                  environment |-> environment,
                                  returned |-> resolve_variables(files.environments, text,
                                                                 environment)])
    /\ UNCHANGED <<pc, files>>
    /\ OthersIdle

NextEnv == NewStorageManager \/ SaveEnvironment \/ ResolveVariables

SpecEnv == InitStore /\ [][NextEnv]_vars

\* the variables an environment holds after the first n calls, None when the
\* environment does not exist
RECURSIVE VariablesOf(_, _)
VariablesOf(environment, n) ==
    IF n = 0 THEN None
    ELSE IF calls[n].op = "save_environment" /\ calls[n].name = environment
    THEN calls[n].variables
    ELSE IF VariablesOf(environment, n - 1) = None /\ environment = "default"
    THEN PyDict(<<>>)
    ELSE VariablesOf(environment, n - 1)

\* the variable whose placeholder a text starts with, 0 when there is none
PlaceholderAt(text, variables) ==
    LET matches == {i \in 1..Len(variables.entries) :
                       startswith(text, "{{" \o variables.entries[i][1] \o "}}")}
    IN IF matches = {} THEN 0 ELSE CHOOSE i \in matches : TRUE

\* a text with every placeholder of a defined variable replaced by the
\* variable's value and everything else left as it is
RECURSIVE Substituted(_, _)
Substituted(text, variables) ==
    IF text = "" THEN ""
    ELSE IF PlaceholderAt(text, variables) # 0
    THEN variables.entries[PlaceholderAt(text, variables)][2].s
             \o Substituted(SubSeq(text,
                                   Len(variables.entries[PlaceholderAt(text, variables)][1]) + 5,
                                   Len(text)),
                            variables)
    ELSE SubSeq(text, 1, 1) \o Substituted(SubSeq(text, 2, Len(text)), variables)

\* C19: resolve_variables returns the text unchanged when the environment does
\* not exist, and otherwise the text with every placeholder of a variable the
\* environment defines replaced by that variable's value and every other
\* placeholder left as it is.
C19_Resolved ==
    \A n \in 1..Len(calls) :
        calls[n].op = "resolve_variables" =>
            calls[n].returned
                = IF VariablesOf(calls[n].environment, n - 1) = None THEN calls[n].text
                  ELSE Substituted(calls[n].text, VariablesOf(calls[n].environment, n - 1))

-----------------------------------------------------------------------------
(* The HTTP client *)

ResponseData(status_code_, headers_, text_, json_data_, url_, method_) ==
    [status_code |-> status_code_, headers |-> headers_, text |-> text_,
     json_data |-> json_data_, url |-> url_, method |-> method_]

\* what the transport does with a request: it raises, or it returns a response
\* whose json() returns a value or raises
TransportError(message_) == [exc |-> message_]

Response(status_code_, text_, json_) ==
    [exc |-> "", status_code |-> status_code_, text |-> text_, json |-> json_]

\* json_response: None when response.json() raised
JsonResponse(response) == IF response.json.exc # "" THEN None ELSE response.json.value

\* the try block: the response data built, unless the request or the
\* validation of json_data as Optional[Dict[str, Any]] raised
TryRequest(response, method_, url_) ==
    IF response.exc # "" THEN Raises(response.exc)
    ELSE IF JsonResponse(response).k \notin {"NoneType", "dict"}
    THEN Raises("1 validation error for ResponseData")
    ELSE Return(ResponseData(PyInt(response.status_code), PyDict(<<>>), PyStr(response.text),
                             JsonResponse(response), PyStr(url_), PyStr(upper(method_))))

\* the except block: the error response
ResponseOf(tried, method_, resolved_url) ==
    IF tried.exc = "" THEN tried.value
    ELSE ResponseData(PyInt(0), PyDict(<<>>), PyStr("Request failed: " \o tried.exc), None,
                      PyStr(resolved_url), PyStr(upper(method_)))

\* "Save to history if requested"
HistoryOf(tried, method_, resolved_url, now) ==
    HistoryEntry(now, PyStr(upper(method_)), PyStr(resolved_url),
                 IF tried.exc = "" THEN tried.value.status_code ELSE None,
                 PyFloat(1), PyBool(tried.exc = ""))

\* send_request: the response data it returns and the history file it leaves
send_request(dir, method_, url_, environment, save_to_history, response, now) ==
    [returned |-> ResponseOf(TryRequest(response, method_,
                                        resolve_variables(dir.environments, url_, environment)),
                             method_,
                             resolve_variables(dir.environments, url_, environment)),
     history |-> IF save_to_history
                 THEN add_to_history(
                          dir.history,
                          HistoryOf(TryRequest(response, method_,
                                               resolve_variables(dir.environments, url_,
                                                                 environment)),
                                    method_,
                                    resolve_variables(dir.environments, url_, environment),
                                    now))
                 ELSE dir.history]

\* test_request: the request is sent without a history entry and the
\* status_code assertion, when there is one, is evaluated
test_request(dir, request_data, tests, environment, response, now) ==
    LET sent == send_request(dir, request_data.method.s, request_data.url.s, environment,
                             FALSE, response, now)
        results == IF Has(tests, "status_code")
                   THEN << <<"status_code",
                             PyBool(PyEq(sent.returned.status_code,
                                         Item(tests, "status_code")))>> >>
                   ELSE <<>>
    IN [returned |-> <<\A i \in 1..Len(results) : results[i][2].b, PyDict(results)>>,
        history |-> sent.history]

-----------------------------------------------------------------------------
(* Requests sent by a client on a configuration directory *)

\* the transport fails, or answers with a JSON object, a JSON array, or a body
\* that is not JSON
Responses ==
    {TransportError("Connection refused"),
     Response(200, "{}", Return(PyDict(<<>>))),
     Response(200, "[]", Return(PyList(<<>>))),
     Response(404, "Not Found", Raises("JSONDecodeError"))}

SendRequest ==
    /\ pc = "open" /\ Len(calls) < MaxCalls
    /\ \E method_ \in {"get", "POST"}, save_to_history \in BOOLEAN, response \in Responses :
          LET sent == send_request(files, method_, "https://{{HOST}}/users", "default",
                                   save_to_history, response, datetime(Len(calls)))
          IN /\ files' = [files EXCEPT !.history = sent.history]
             /\ calls' = Append(calls, [op |-> "send_request",
                                        save_to_history |-> save_to_history,
                                        response |-> response,
                                        returned |-> sent.returned,
                                        before |-> files.history,
                                        after |-> sent.history])
    /\ UNCHANGED pc
    /\ OthersIdle

TestRequest ==
    /\ pc = "open" /\ Len(calls) < MaxCalls
    /\ \E request_data \in Requests, response \in Responses,
          tests \in {PyDict(<<>>), PyDict(<< <<"status_code", PyInt(200)>> >>)} :
          LET tested == test_request(files, request_data, tests, "default", response,
                                     datetime(Len(calls)))
          IN /\ files' = [files EXCEPT !.history = tested.history]
             /\ calls' = Append(calls, [op |-> "test_request",
                                        save_to_history |-> FALSE,
                                        response |-> response,
                                        returned |-> tested.returned,
                                        before |-> files.history,
                                        after |-> tested.history])
    /\ UNCHANGED pc
    /\ OthersIdle

NextClient == NewStorageManager \/ SaveEnvironment \/ SendRequest \/ TestRequest

SpecClient == InitStore /\ [][NextClient]_vars

\* the entries a call appended to the history
Appended(c) == SubSeq(c.after.items, Len(c.before.items) + 1, Len(c.after.items))

\* C17: when the HTTP call raises, send_request returns a response with status
\* 0, no JSON and a text that holds the failure message; a call that saves to
\* the history appends exactly one entry, unsuccessful and without status when
\* the HTTP call raised, successful and with the response's status when it
\* returned; a call that does not save appends none.
C17_SendRequest ==
    \A n \in 1..Len(calls) :
        /\ (calls[n].op = "send_request" /\ calls[n].response.exc # "") =>
              /\ calls[n].returned.status_code = PyInt(0)
              /\ calls[n].returned.json_data = None
              /\ IsSubstring(calls[n].response.exc, calls[n].returned.text.s)
        /\ (calls[n].op = "send_request" /\ calls[n].save_to_history) =>
              /\ Len(Appended(calls[n])) = 1
              /\ Item(Appended(calls[n])[1], "success") = PyBool(calls[n].response.exc = "")
              /\ Item(Appended(calls[n])[1], "status_code")
                    = IF calls[n].response.exc # "" THEN None
                      ELSE PyInt(calls[n].response.status_code)
        /\ (calls[n].op \in {"send_request", "test_request"} /\ ~calls[n].save_to_history) =>
              calls[n].after = calls[n].before

\* ---------------------------------------------------------------------------
\* Unexpected headers
\* ---------------------------------------------------------------------------

DeclaredHeaders ==
    {endpoint.headers.entries[i][1] : i \in 1..Len(endpoint.headers.entries)}

\* the positions of the warnings of a report that carry a given text
WarningsWith(r, text) == {i \in 1..Len(r.warnings) : r.warnings[i] = text}

Undeclared(h) == \A H \in DeclaredHeaders : lower(H) # lower(h)

\* C21: for every endpoint, declaring headers or none, and every supplied header
\* whose name equals no declared header ignoring case, the report of
\* validate_request holds exactly one "Unexpected header" warning for it; a
\* supplied header that equals a declared one ignoring case has no such warning.
C21_UnexpectedReported ==
    Returned =>
        \A h \in SuppliedHeaders :
            IF Undeclared(h)
            THEN Cardinality(WarningsWith(result, "Unexpected header: " \o h)) = 1
            ELSE WarningsWith(result, "Unexpected header: " \o h) = {}

\* ---------------------------------------------------------------------------
\* Pattern of a string field
\* ---------------------------------------------------------------------------

FieldPattern == Get(FieldSchema, "pattern", None)

\* the whole of a text is a match of a pattern of literal characters, with or
\* without its anchors
FullMatch(pattern, text) ==
    LET p1 == IF startswith(pattern, "^") THEN SubSeq(pattern, 2, Len(pattern)) ELSE pattern
        literal == IF endswith(p1, "$") THEN SubSeq(p1, 1, Len(p1) - 1) ELSE p1
    IN text = literal

PatternErrors ==
    ErrorsWith(result, "body.f", "Value does not match pattern: " \o FieldPattern.s)

\* C22: a string value has no pattern error exactly when the whole value
\* matches the declared pattern; a value that only starts with a match of the
\* pattern has a pattern error.
C22_FullMatch ==
    (OneField /\ FieldPattern # None /\ FieldValue.k = "str") =>
        (PatternErrors = {} <=> FullMatch(FieldPattern.s, FieldValue.s))

\* ---------------------------------------------------------------------------
\* Literal segments of a path
\* ---------------------------------------------------------------------------

\* the positions at which a literal segment of the template differs from the
\* segment of the actual path
LiteralMismatches(template, actual) ==
    {i \in 1..Len(template) : ~IsPlaceholder(template[i]) /\ template[i] # actual[i]}

\* C23: when template and actual path have the same number of segments and one
\* literal segment or more differs, the report has exactly one error on field
\* path, however many segments differ.
C23_OneMismatchError ==
    PathChecked =>
        LET template == CheckedSegments(endpoint.path)
            actual == CheckedSegments(path.s)
        IN (Len(template) = Len(actual) /\ LiteralMismatches(template, actual) # {})
              => Cardinality(ErrorsAt(result, "path")) = 1

\* ---------------------------------------------------------------------------
\* Properties a body holds and its schema does not declare
\* ---------------------------------------------------------------------------

BodyDeclared == Get(endpoint.body_schema, "properties", PyDict(<<>>))

\* the names of the body that the schema's properties do not declare
AdditionalNames ==
    {body.entries[i][1] :
        i \in {j \in 1..Len(body.entries) : ~Has(BodyDeclared, body.entries[j][1])}}

AdditionalPolicy == Get(endpoint.body_schema, "additionalProperties", PyBool(TRUE))

\* the warnings of a report that name a given property
WarningsNaming(r, name) == {i \in 1..Len(r.warnings) : IsSubstring(name, r.warnings[i])}

\* C25: a property the body holds and the schema does not declare gets a warning
\* and no error under the policy allowed, exactly one error at body.<name> under
\* the policy disallowed, and the errors of its value against the policy's
\* schema, at body.<name>, under a policy that supplies one.
C25_AdditionalProperties ==
    ObjectBodyChecked =>
        \A name \in AdditionalNames :
            IF AdditionalPolicy = PyBool(TRUE)
            THEN /\ WarningsNaming(result, name) # {}
                 /\ ErrorsAt(result, "body." \o name) = {}
            ELSE IF AdditionalPolicy = PyBool(FALSE)
            THEN /\ Cardinality(ErrorsAt(result, "body." \o name)) = 1
                 /\ ErrorsWith(result, "body." \o name, "Additional property not allowed")
                        = ErrorsAt(result, "body." \o name)
            ELSE Cardinality(ErrorsAt(result, "body." \o name))
                     = IF IsInt(Item(body, name)) THEN 0 ELSE 1

\* the same without the warning of the policy allowed
C25_ErrorsOnly ==
    ObjectBodyChecked =>
        \A name \in AdditionalNames :
            IF AdditionalPolicy = PyBool(TRUE)
            THEN ErrorsAt(result, "body." \o name) = {}
            ELSE IF AdditionalPolicy = PyBool(FALSE)
            THEN /\ Cardinality(ErrorsAt(result, "body." \o name)) = 1
                 /\ ErrorsWith(result, "body." \o name, "Additional property not allowed")
                        = ErrorsAt(result, "body." \o name)
            ELSE Cardinality(ErrorsAt(result, "body." \o name))
                     = IF IsInt(Item(body, name)) THEN 0 ELSE 1

\* ---------------------------------------------------------------------------
\* The checks of one field value
\* ---------------------------------------------------------------------------

Keyword(name) == Get(FieldSchema, name, None)

\* the field is constrained by type, enum, pattern, length and range only
ScalarField == OneField /\ FieldSchema \in StringSchemas \cup NumericSchemas

\* the runtime kinds a declared type stands for
KindsOf(type) ==
    CASE type = "string" -> {"str"}
      [] type = "integer" -> {"int"}
      [] type = "number" -> {"int", "float"}
      [] type = "boolean" -> {"bool"}
      [] type = "array" -> {"list"}
      [] type = "object" -> {"dict"}

\* the value is one on which the kinds and the pattern are judged alike by a
\* comparison of kinds and by a type test, by a full match and by a match at the
\* start: no boolean against a numeric constraint, no string that only starts
\* with a match
JudgedAlike ==
    /\ FieldValue.k = "bool" =>
          /\ FieldType.s \notin {"integer", "number"}
          /\ Keyword("minimum") = None
          /\ Keyword("maximum") = None
    /\ (FieldValue.k = "str" /\ FieldPattern # None) =>
          (FullMatch(FieldPattern.s, FieldValue.s) <=> re_match(FieldPattern.s, FieldValue.s))

Count(violated) == IF violated THEN 1 ELSE 0

TypeViolated == FieldValue.k \notin KindsOf(FieldType.s)

EnumViolated == Keyword("enum") # None /\ ~IsMember(Keyword("enum"), FieldValue)

PatternViolated ==
    FieldValue.k = "str" /\ FieldPattern # None /\ ~FullMatch(FieldPattern.s, FieldValue.s)

TooShort ==
    FieldValue.k = "str" /\ Keyword("minLength") # None
        /\ Len(FieldValue.s) < Keyword("minLength").n

TooLong ==
    FieldValue.k = "str" /\ Keyword("maxLength") # None
        /\ Len(FieldValue.s) > Keyword("maxLength").n

TooSmall ==
    FieldValue.k \in {"int", "float"} /\ Keyword("minimum") # None
        /\ Twice(FieldValue) < Twice(Keyword("minimum"))

TooLarge ==
    FieldValue.k \in {"int", "float"} /\ Keyword("maximum") # None
        /\ Twice(FieldValue) > Twice(Keyword("maximum"))

Violations ==
    Count(TypeViolated) + Count(EnumViolated) + Count(PatternViolated) + Count(TooShort)
        + Count(TooLong) + Count(TooSmall) + Count(TooLarge)

\* the messages of the errors on the field
FieldMessages == {result.errors[i].message : i \in ErrorsAt(result, "body.f")}

\* C26: the type, enum, pattern, length and range checks of one field value are
\* evaluated independently: the report has one error on the field's path for
\* every constraint the value violates, each with a message of its own.
C26_NoShortCircuit ==
    (ScalarField /\ JudgedAlike) =>
        /\ Cardinality(ErrorsAt(result, "body.f")) = Violations
        /\ Cardinality(FieldMessages) = Violations
        /\ Len(result.errors) = Violations

\* a string shorter than minLength and not in the enum has two errors
C26_Witness ==
    /\ ScalarField
    /\ JudgedAlike
    /\ FieldType = PyStr("string")
    /\ FieldValue = PyStr("x")
    /\ EnumViolated
    /\ TooShort
    /\ Violations = 2
    /\ Cardinality(ErrorsAt(result, "body.f")) = 2

\* a value of another kind that is not in the enum, and a number out of range
C26_WitnessType ==
    /\ ScalarField
    /\ JudgedAlike
    /\ TypeViolated
    /\ EnumViolated
    /\ TooSmall
    /\ Cardinality(ErrorsAt(result, "body.f")) = 3

\* ---------------------------------------------------------------------------
\* Suggestions for headers
\* ---------------------------------------------------------------------------

\* the declared headers that are optional and have a default
DefaultedHeaders ==
    {i \in 1..Len(endpoint.headers.entries) :
        /\ Get(endpoint.headers.entries[i][2], "required", PyBool(FALSE)) = PyBool(FALSE)
        /\ Get(endpoint.headers.entries[i][2], "default", None) # None}

\* C28: an optional declared header with a default gets its suggestion exactly
\* when no supplied header equals it ignoring case: supplying it under any
\* spelling of its name suppresses the suggestion.
C28_HeaderSuggestion ==
    Returned =>
        \A i \in DefaultedHeaders :
            LET name == endpoint.headers.entries[i][1]
                def == endpoint.headers.entries[i][2]
                text == "Consider adding header '" \o name \o "' with default value: "
                            \o str(Item(def, "default"))
            IN Cardinality(SuggestionsOf(text))
                   = IF \E h \in SuppliedHeaders : lower(h) = lower(name) THEN 0 ELSE 1

\* ---------------------------------------------------------------------------
\* The reports of the sub-validators
\* ---------------------------------------------------------------------------

\* a caller's direct call of a public sub-validator: the report it returns
Checked(report) ==
    /\ pc = "ready"
    /\ result' = report
    /\ pc' = IF report.exc = "" THEN "checked" ELSE "raised"
    /\ UNCHANGED <<files, calls,
                   endpoint, headers, query_params, body, method, path, schema_data,
                   api_schema, hash_order, answers, frames, prompted>>

ValidateHeaders ==
    /\ headers # None
    /\ Checked(validate_headers(endpoint.headers, headers))

ValidateQueryParams ==
    /\ query_params # None
    /\ Checked(validate_query_params(endpoint.query_params, query_params))

ValidateBody ==
    /\ endpoint.body_schema # None
    /\ Checked(validate_body(endpoint.body_schema, body))

ValidateObject ==
    /\ endpoint.body_schema # None
    /\ body # None
    /\ Checked(validate_object(body, endpoint.body_schema, "body"))

\* the body's one field f and the schema declared for it
HasField ==
    /\ endpoint.body_schema # None
    /\ Has(Get(endpoint.body_schema, "properties", PyDict(<<>>)), "f")
    /\ body # None
    /\ body.k = "dict"
    /\ Has(body, "f")

ValidateArray ==
    /\ HasField
    /\ Checked(validate_array(FieldValue, FieldSchema, "f"))

ValidateFieldValue ==
    /\ HasField
    /\ Checked(validate_field_value("f", FieldValue, FieldSchema))

NextParts ==
    \/ ValidateHeaders
    \/ ValidateQueryParams
    \/ ValidateBody
    \/ ValidateObject
    \/ ValidateArray
    \/ ValidateFieldValue

SpecParts == Init /\ [][NextParts]_vars

\* C29: every report a public sub-validator returns has is_valid true exactly
\* when it records no error, also when its only errors were merged in from the
\* check of a nested field, object or array.
C29_PartsValidity == pc = "checked" => (result.is_valid <=> result.errors = <<>>)

----------------------------------------------------------------------------
(* schema_loader.py: _path_matches, get_endpoint_schema, list_endpoints;
   interactive.py: the lookup of the endpoint chosen *)

\* for schema_part, request_part in zip(schema_parts, request_parts): ...
RECURSIVE PartsMatch(_, _, _)
PartsMatch(schema_parts, request_parts, i) ==
    IF i > Len(schema_parts) THEN TRUE
    ELSE IF startswith(schema_parts[i], "{") /\ endswith(schema_parts[i], "}")
    THEN PartsMatch(schema_parts, request_parts, i + 1)
    ELSE IF schema_parts[i] # request_parts[i] THEN FALSE
    ELSE PartsMatch(schema_parts, request_parts, i + 1)

path_matches(schema_path, request_path) ==
    LET schema_parts == split(strip(schema_path, "/"), "/")
        request_parts == split(strip(request_path, "/"), "/")
    IN IF Len(schema_parts) # Len(request_parts) THEN FALSE
       ELSE PartsMatch(schema_parts, request_parts, 1)

\* for endpoint in schema.endpoints: the first one of the method whose path
\* matches
RECURSIVE FirstMatch(_, _, _, _)
FirstMatch(endpoints, method_, path_, i) ==
    IF i > Len(endpoints) THEN None
    ELSE IF endpoints[i].method = method_ /\ path_matches(endpoints[i].path, path_)
    THEN endpoints[i]
    ELSE FirstMatch(endpoints, method_, path_, i + 1)

get_endpoint_schema(schema, method_, path_) ==
    FirstMatch(schema.endpoints, upper(method_), path_, 1)

\* (method, path) tuples compare by method, then by path
TupleLess(a, b) == IF a[1] # b[1] THEN StrLess(a[1], b[1]) ELSE StrLess(a[2], b[2])

RECURSIVE SortedTuples(_)
SortedTuples(tuples) ==
    IF tuples = <<>> THEN <<>>
    ELSE LET front == SortedTuples(SubSeq(tuples, 1, Len(tuples) - 1))
             last == tuples[Len(tuples)]
             before == Cardinality({i \in 1..Len(front) : ~TupleLess(last, front[i])})
         IN SubSeq(front, 1, before) \o <<last>> \o SubSeq(front, before + 1, Len(front))

list_endpoints(schema, filter_method) ==
    LET kept == SelectSeq(schema.endpoints,
                          LAMBDA e : filter_method = None \/ e.method = upper(filter_method.s))
    IN SortedTuples([i \in 1..Len(kept) |-> <<kept[i].method, kept[i].path>>])

\* the choices prompt_for_endpoint offers: None without endpoints, the only
\* endpoint without a question, any of several
prompt_for_endpoint(endpoints) ==
    IF endpoints = <<>> THEN {None}
    ELSE IF Len(endpoints) = 1 THEN {endpoints[1]}
    ELSE {endpoints[i] : i \in 1..Len(endpoints)}

----------------------------------------------------------------------------
(* The schemas an endpoint is looked up in *)

MaxEndpoints == 2        \* endpoints of a loaded schema

LookupMethods == {"GET", "POST"}

LookupTemplates == {"/users/{id}", "/users/me", "/a/{id}/b", "/{id}"}

\* the request paths a caller looks up
RequestPaths == {"/users/me", "/users/42", "/a//b", "/a/1/b", "/", "/users"}

\* the (method, path) pairs of a schema's endpoints: a document's paths and
\* the methods of a path are keys of a map, so no pair occurs twice
EndpointLists ==
    {q \in SeqsUpTo(LookupMethods \X LookupTemplates, MaxEndpoints) :
        \A i, j \in 1..Len(q) : q[i] = q[j] => i = j}

LoadedSchema(pairs) ==
    [APISchema(PyStr("API"), PyStr("1.0.0"), None, PyDict(<<>>), PyDict(<<>>))
        EXCEPT !.endpoints = [i \in 1..Len(pairs) |-> SchemaEndpoint(pairs[i][1], pairs[i][2])]]

InitLookup ==
    /\ pc = "loaded"
    /\ schema_data = None
    /\ api_schema \in {LoadedSchema(pairs) : pairs \in EndpointLists}
    /\ NoValidator
    /\ NoPrompter
    /\ NoStorage

\* the step of the interactive flow that lets the user choose an endpoint
SelectEndpoint ==
    /\ pc = "loaded"
    /\ \E selected_endpoint \in prompt_for_endpoint(list_endpoints(api_schema, None)) :
          IF selected_endpoint = None
          THEN pc' = "ended" /\ UNCHANGED <<method, path>>
          ELSE /\ pc' = "selected"
               /\ method' = PyStr(selected_endpoint[1])
               /\ path' = PyStr(selected_endpoint[2])
    /\ UNCHANGED <<files, calls, endpoint, headers, query_params, body, result, schema_data,
                   api_schema, hash_order, answers, frames, prompted>>

\* a caller names the method and the path of the endpoint it wants
RequestEndpoint ==
    /\ pc = "loaded"
    /\ \E m \in {"get", "POST"}, p \in RequestPaths :
          method' = PyStr(m) /\ path' = PyStr(p)
    /\ pc' = "selected"
    /\ UNCHANGED <<files, calls, endpoint, headers, query_params, body, result, schema_data,
                   api_schema, hash_order, answers, frames, prompted>>

GetEndpointSchema ==
    /\ pc = "selected"
    /\ result' = get_endpoint_schema(api_schema, method.s, path.s)
    /\ pc' = "found"
    /\ UNCHANGED <<files, calls, endpoint, headers, query_params, body, method, path,
                   schema_data, api_schema, hash_order, answers, frames, prompted>>

\* the path test of the lookup, on one endpoint of the schema and one request
\* path
PathMatches ==
    /\ pc = "loaded"
    /\ \E i \in 1..Len(api_schema.endpoints), p \in RequestPaths :
          /\ endpoint' = api_schema.endpoints[i]
          /\ path' = PyStr(p)
          /\ result' = PyBool(path_matches(api_schema.endpoints[i].path, p))
    /\ pc' = "matched"
    /\ UNCHANGED <<files, calls, headers, query_params, body, method, schema_data,
                   api_schema, hash_order, answers, frames, prompted>>

NextLookup == SelectEndpoint \/ RequestEndpoint \/ GetEndpointSchema \/ PathMatches

SpecLookup == InitLookup /\ [][NextLookup]_vars

\* C24: a template and a request path match exactly when they have the same
\* number of segments, equal literal segments and a non-empty request segment
\* for every placeholder; /a//b does not match /a/{id}/b.
C24_PathMatches ==
    pc = "matched" =>
        (result = PyBool(TRUE)
            <=> SegmentsAgree(CheckedSegments(endpoint.path), CheckedSegments(path.s)))

\* the endpoints of the schema that have the method and the very path looked up
Named ==
    {i \in 1..Len(api_schema.endpoints) :
        /\ api_schema.endpoints[i].method = upper(method.s)
        /\ api_schema.endpoints[i].path = path.s}

\* the endpoints of the schema that have the method looked up and a template
\* the path matches
Matching ==
    {i \in 1..Len(api_schema.endpoints) :
        /\ api_schema.endpoints[i].method = upper(method.s)
        /\ SegmentsAgree(CheckedSegments(api_schema.endpoints[i].path),
                         CheckedSegments(path.s))}

\* C30: looking up an endpoint of the schema by its own method and path returns
\* that endpoint, not another one whose template matches its path too, and the
\* lookup returns None only when no endpoint has the method and a matching path.
C30_LookupConsistent ==
    pc = "found" =>
        /\ \A i \in Named : result = api_schema.endpoints[i]
        /\ result = None => Matching = {}

----------------------------------------------------------------------------
(* The array loop of the prompter *)

\* array schemas with an upper bound, the lower bound also above it, whose
\* items are scalars or arrays themselves, and arrays of booleans without one
ArraySchemas ==
    {PyDict(<< <<"type", PyStr("array")>>, <<"items", items>> >> \o lo \o hi) :
        items \in {Schema("integer"), Schema("string"),
                   SetItem(SetItem(Schema("array"), "items", Schema("boolean")),
                           "maxItems", PyInt(1))},
        lo \in Optional("minItems", {PyInt(0), PyInt(1), PyInt(2)}),
        hi \in {<< <<"maxItems", PyInt(n)>> >> : n \in 0..1}}
        \cup {PyDict(<< <<"type", PyStr("array")>>, <<"items", Schema("boolean")>> >> \o lo) :
                 lo \in Optional("minItems", {PyInt(1)})}

\* the flow has prompted for headers and query parameters and comes to a body
\* that is an array
InitArray ==
    /\ pc = "query"
    /\ \E body_schema \in ArraySchemas :
          endpoint = [SchemaEndpoint("POST", "/items") EXCEPT !.body_schema = body_schema]
    /\ headers = PyDict(<<>>) /\ query_params = PyDict(<<>>) /\ body = None
    /\ method = None /\ path = None /\ result = None
    /\ hash_order = 0
    /\ NoLoader
    /\ NoPrompter
    /\ NoStorage

NextArray == PromptForBody \/ PromptItem \/ ReturnArray

\* the flow runs on: every prompt is answered and every call returns
SpecArray == InitArray /\ [][NextArray]_vars /\ WF_vars(NextArray)

\* the bounds an array schema declares, 0 and 10 where it declares none
Lower(schema) == IF Has(schema, "minItems") THEN Item(schema, "minItems").n ELSE 0
Upper(schema) == IF Has(schema, "maxItems") THEN Item(schema, "maxItems").n ELSE DefaultMaxItems

\* an array loop holds at most max_items items and, once it has ended and
\* min_items is at most max_items, at least min_items
Bounded(frame) ==
    /\ Len(frame.value.items) <= Upper(frame.schema)
    /\ (frame.done \/ Len(frame.value.items) >= Upper(frame.schema)) =>
          (Lower(frame.schema) <= Upper(frame.schema)
              => Len(frame.value.items) >= Lower(frame.schema))

ArraysBounded ==
    \A i \in 1..Len(frames) : frames[i].fn = "array" => Bounded(frames[i])

\* the question whether to add another item is put
OffersStop ==
    /\ Len(answers') > Len(answers)
    /\ answers'[Len(answers) + 1].msg
          = Top.indent \o "Add item #" \o NatStr(Len(Top.value.items) + 1) \o "?"

StopOfferedLate ==
    (PromptItem /\ OffersStop) => Len(Top.value.items) >= Lower(Top.schema)

\* C27: the array loop never holds more than max_items items (10 by default)
\* and, when min_items is at most max_items, ends with at least min_items; it
\* offers the choice to stop only once min_items items are collected; and it
\* ends when the collector in the end declines or supplies the items asked for.
C27_ArrayLoop ==
    /\ []ArraysBounded
    /\ [][StopOfferedLate]_vars
    /\ (pc = "prompting") ~> (pc = "prompted")

\* a loop has ended on the collector's choice with min_items items, below
\* max_items
C27_Witness ==
    /\ pc = "prompted"
    /\ prompted.k = "list"
    /\ Get(endpoint.body_schema, "minItems", PyInt(0)) = PyInt(1)
    /\ Get(endpoint.body_schema, "maxItems", None) = None
    /\ Len(prompted.items) = 1
    /\ \E i \in 1..Len(answers) : answers[i].msg = "  Add item #2?"

\* a loop has run up to the default of max_items
C27_WitnessDefault ==
    /\ pc = "prompted"
    /\ prompted.k = "list"
    /\ Len(prompted.items) = DefaultMaxItems

\* the collector has declined an item the array needs and supplied it when
\* asked again
C27_WitnessDeclined ==
    /\ pc = "prompted"
    /\ prompted.k = "list"
    /\ Len(answers) >= 2
    /\ answers[1].required /\ answers[1].answer = PyBool(FALSE)
    /\ Len(prompted.items) >= 1

====
